---- MODULE Spec2Model ----
(***************************************************************************)
(* Storage and signal consolidation of the news-insight parser:            *)
(*   storage/universal_database.py   UniversalDatabaseManager              *)
(*   analyzers/enhanced_signal_detector.py   EnhancedSignalDetector        *)
(*   parsers/base_parser.py   BaseParser.generate_content_hash             *)
(*                                                                         *)
(* Text is a sequence of one-character strings, so that lower(), strip(),  *)
(* split(), substring tests and difflib.SequenceMatcher are computed as    *)
(* the code computes them.  Real numbers are exact rationals <<num, den>>. *)
(***************************************************************************)
EXTENDS FiniteSets, Integers, Sequences, TLC

VARIABLES
    posts,          \* table universal_posts, in row order
    groups,         \* table duplicate_groups, in row order
    similar_posts,  \* ids returned by the last candidate query, in the order iterated
    dialect,        \* SQL dialect behind the engine: "sqlite" or "postgresql"
    comments,       \* table universal_comments, in row order
    signals,        \* table enhanced_signals, in row order
    now,            \* wall clock, seconds
    sim_call,       \* arguments and result of a direct _calculate_similarity call
    detect_runs,    \* number of detect_all_signals runs completed
    topics,         \* table topics of the analytics, in row order
    used_topics,    \* table used_topics, in row order
    selection,      \* the select_next_topic call in progress and its result
    used_query,     \* arguments and result of a direct is_topic_used_recently call
    llm_calls,      \* the calls made to the analyzers, with what each returned or raised
    workflow,       \* the generate_and_post run in progress or finished, and its result dict
    generated_content,  \* table generated_content, in row order
    parser_status,  \* the parser_status dict of the web application
    orchestrator,   \* the status dict of the ParserOrchestrator
    parse_threads,  \* the /api/parse requests and the run_parser threads they started
    writers,        \* the threads inside add_universal_post, one call each at a time
    growth_call,    \* arguments and result of a direct _calculate_growth_rate call
    runs,           \* the generate_and_post runs in progress, one per calling thread
    poster,         \* the post_content call of the TelegramPoster and its send attempts
    parser_runs,    \* table parser_runs, in row order
    scheduler       \* the AutoScheduler: its config and the jobs of its BackgroundScheduler

storage_vars == <<posts, groups, similar_posts, dialect, comments, signals, sim_call, detect_runs>>

parsing_vars == <<parser_status, orchestrator, parse_threads, writers>>

job_vars == <<runs, poster, parser_runs, scheduler>>

service_vars == <<llm_calls, workflow, generated_content, parsing_vars, growth_call, job_vars>>

automation_vars == <<topics, used_topics, selection, used_query, service_vars>>

vars == <<posts, groups, similar_posts, dialect, comments, signals, now, sim_call, detect_runs,
          topics, used_topics, selection, used_query, llm_calls, workflow, generated_content,
          parser_status, orchestrator, parse_threads, writers, growth_call,
          runs, poster, parser_runs, scheduler>>

\* no generate_and_post run: the result dict as generate_and_post initialises it (None is
\* "None" for the error, 0 for the ids, <<>> for the topic), and the steps that failed
NoWorkflow ==
    [pc |-> "idle",
     result |-> [success |-> FALSE, content_id |-> 0, message_id |-> 0, image_path |-> "None",
                 topic |-> <<>>, error |-> "None"],
     failed |-> {}]

Threads == {1, 2}

\* a request that has not arrived: no thread, nothing parsed (None is <<>> and "None")
NoThread ==
    [pc |-> "idle", sources |-> <<>>, read_running |-> FALSE, sources_left |-> <<>>,
     current_source |-> "None", sections_left |-> <<>>, parsed |-> <<>>]

\* a thread outside add_universal_post (no post_data is <<>>, no row is 0)
NoWriter == [pc |-> "idle", post_data |-> <<>>, existing |-> 0]

\* the parser is idle: parser_status and ParserOrchestrator.status as initialised
NoParsing ==
    /\ parser_status = [is_running |-> FALSE]
    /\ orchestrator = [is_running |-> FALSE, errors |-> <<>>]
    /\ parse_threads = [t \in Threads |-> NoThread]
    /\ writers = [t \in Threads |-> NoWriter]

\* a thread outside generate_and_post: the result dict as generate_and_post initialises
\* it, no topic, posts or content (None is <<>>), no step taken
NoRun ==
    [pc |-> "idle", steps |-> <<>>, topic |-> <<>>, post_ids |-> <<>>, content |-> <<>>,
     content_id |-> 0, posted |-> FALSE, result |-> NoWorkflow.result]

\* no post_content call: no attempt made, nothing sent, nothing returned or raised
NoPoster ==
    [pc |-> "idle", max_retries |-> 0, media_path |-> FALSE, attempt |-> 0, sends |-> <<>>,
     raised |-> "", outcome |-> <<>>]

\* _load_config without a config file: the default configuration
DefaultConfig == [auto_parse_enabled |-> FALSE, sources |-> <<>>]

\* get_scheduler() has not been called: no AutoScheduler, no orchestrator, no job
NoScheduler ==
    [pc |-> "none", orchestrator |-> FALSE, running |-> FALSE, config |-> DefaultConfig,
     jobs |-> {}]

\* no run of the workflow, no post_content call, no parser run recorded, no scheduler
NoJobs ==
    /\ runs = [r \in Threads |-> NoRun]
    /\ poster = NoPoster
    /\ parser_runs = <<>>
    /\ scheduler = NoScheduler

\* no analyzer has been called, no workflow has run, the parser is idle
NoServices ==
    /\ llm_calls = <<>>
    /\ workflow = NoWorkflow
    /\ generated_content = <<>>
    /\ NoParsing
    /\ growth_call = <<>>
    /\ NoJobs

\* no topic is stored or used and no selection is in progress
NoAutomation ==
    /\ topics = <<>>
    /\ used_topics = <<>>
    /\ selection = [pc |-> "idle", exclude_days |-> 0, prefer_trending |-> FALSE,
                    min_posts |-> 0, requested_days |-> 0, result |-> <<>>]
    /\ used_query = <<>>
    /\ NoServices

-----------------------------------------------------------------------------
(* Bounds *)

MaxPosts == 3

-----------------------------------------------------------------------------
(* Integers and rationals *)

Min(a, b) == IF a < b THEN a ELSE b

Max(a, b) == IF a > b THEN a ELSE b

SetMin(S) == CHOOSE x \in S : \A y \in S : x <= y

SetMax(S) == CHOOSE x \in S : \A y \in S : x >= y

Abs(x) == IF x < 0 THEN -x ELSE x

RECURSIVE Gcd(_, _)
Gcd(a, b) == IF b = 0 THEN a ELSE Gcd(b, a % b)

\* the rational n/d in lowest terms
Frac(n, d) == LET g == Gcd(n, d) IN IF g = 0 THEN <<0, 1>> ELSE <<n \div g, d \div g>>

FracAdd(x, y) == Frac(x[1] * y[2] + y[1] * x[2], x[2] * y[2])

FracMul(x, y) == Frac(x[1] * y[1], x[2] * y[2])

FracGT(x, y) == x[1] * y[2] > y[1] * x[2]

-----------------------------------------------------------------------------
(* Python str operations on texts *)

UpperCase == <<"A","B","C","D","E","F","G","H","I","J","K","L","M",
               "N","O","P","Q","R","S","T","U","V","W","X","Y","Z">>

LowerCase == <<"a","b","c","d","e","f","g","h","i","j","k","l","m",
               "n","o","p","q","r","s","t","u","v","w","x","y","z">>

Whitespace == {" "}

UpperCaseSet == {UpperCase[i] : i \in 1..26}

lower_char(c) ==
    IF c \in UpperCaseSet
    THEN LowerCase[CHOOSE i \in 1..26 : UpperCase[i] = c]
    ELSE c

\* str.lower()
lower(s) == [i \in 1..Len(s) |-> lower_char(s[i])]

\* s[:n]
Take(s, n) == SubSeq(s, 1, Min(n, Len(s)))

\* str.strip()
strip(s) ==
    LET keep == {i \in 1..Len(s) : s[i] \notin Whitespace}
    IN  IF keep = {} THEN <<>> ELSE SubSeq(s, SetMin(keep), SetMax(keep))

\* needle in hay
contains(hay, needle) ==
    \E start \in 0..(Len(hay) - Len(needle)) :
        \A k \in 1..Len(needle) : hay[start + k] = needle[k]

-----------------------------------------------------------------------------
(* difflib.SequenceMatcher(None, a, b).ratio(); texts are shorter than 200 *)
(* characters, so the autojunk heuristic never marks a character popular.  *)

\* length of the common run that starts at a[i] and b[j], inside a[..ahi], b[..bhi]
match_len(a, b, i, j, ahi, bhi) ==
    LET m == Min(ahi - i, bhi - j) + 1
    IN  CHOOSE k \in 0..m :
            /\ (k = m \/ a[i + k] # b[j + k])
            /\ \A t \in 0..(k - 1) : a[i + t] = b[j + t]

\* the longest matching block <<i, j, size>> in a[alo..ahi], b[blo..bhi]:
\* maximal size, then the earliest start in a, then the earliest start in b
find_longest_match(a, b, alo, ahi, blo, bhi) ==
    LET cells == (alo..ahi) \X (blo..bhi)
        size  == SetMax({match_len(a, b, c[1], c[2], ahi, bhi) : c \in cells})
        besti == SetMin({c[1] : c \in {d \in cells :
                             match_len(a, b, d[1], d[2], ahi, bhi) = size}})
        bestj == SetMin({j \in blo..bhi : match_len(a, b, besti, j, ahi, bhi) = size})
    IN  IF size = 0 THEN <<alo, blo, 0>> ELSE <<besti, bestj, size>>

\* sum of the sizes of get_matching_blocks() restricted to a[alo..ahi], b[blo..bhi]
RECURSIVE matching_size(_, _, _, _, _, _)
matching_size(a, b, alo, ahi, blo, bhi) ==
    IF alo > ahi \/ blo > bhi THEN 0
    ELSE LET x == find_longest_match(a, b, alo, ahi, blo, bhi)
         IN  IF x[3] = 0 THEN 0
             ELSE x[3] + matching_size(a, b, alo, x[1] - 1, blo, x[2] - 1)
                       + matching_size(a, b, x[1] + x[3], ahi, x[2] + x[3], bhi)

\* ratio() = 2.0 * matches / (len(a) + len(b)), and 1.0 when both are empty
ratio(a, b) ==
    IF Len(a) + Len(b) = 0 THEN <<1, 1>>
    ELSE Frac(2 * matching_size(a, b, 1, Len(a), 1, Len(b)), Len(a) + Len(b))

-----------------------------------------------------------------------------
(* Texts of the posts fed to the store *)


\* Launching my new SaaS
TitleSaasA == <<"L","a","u","n","c","h","i","n","g"," ","m","y"," ","n","e","w"," ","S","a","a"
    ,"S">>

\* Launching My New Saas!!
TitleSaasB == <<"L","a","u","n","c","h","i","n","g"," ","M","y"," ","N","e","w"," ","S","a","a"
    ,"s","!","!">>

\* Show HN: Feedparse, a tiny open source RSS parser for Go
TitleFeedGo == <<"S","h","o","w"," ","H","N",":"," ","F","e","e","d","p","a","r","s","e",","," "
    ,"a"," ","t","i","n","y"," ","o","p","e","n"," ","s","o","u","r","c","e"," ","R","S","S"," "
    ,"p","a","r","s","e","r"," ","f","o","r"," ","G","o">>

\* Show HN: Feedparse, a tiny open source RSS parser for Rust
TitleFeedRust == <<"S","h","o","w"," ","H","N",":"," ","F","e","e","d","p","a","r","s","e",","
    ," ","a"," ","t","i","n","y"," ","o","p","e","n"," ","s","o","u","r","c","e"," ","R","S","S"
    ," ","p","a","r","s","e","r"," ","f","o","r"," ","R","u","s","t">>

\* Quarterly hiring thread
TitleHiring == <<"Q","u","a","r","t","e","r","l","y"," ","h","i","r","i","n","g"," ","t","h","r"
    ,"e","a","d">>

\* We built it
ContentBuiltIt == <<"W","e"," ","b","u","i","l","t"," ","i","t">>

\* We built this
ContentBuiltThis == <<"W","e"," ","b","u","i","l","t"," ","t","h","i","s">>

\* Parses RSS
ContentParses == <<"P","a","r","s","e","s"," ","R","S","S">>

\* Who is hiring
ContentWho == <<"W","h","o"," ","i","s"," ","h","i","r","i","n","g">>

-----------------------------------------------------------------------------
(* Posts: parse_and_save builds post_data and hands it to add_universal_post *)

Hour == 3600

Day == 86400

\* BaseParser.generate_content_hash: SHA-256 of the normalized text; the digest
\* is modelled by the normalized text itself (no collisions)
generate_content_hash(title, content) ==
    lower(strip(title)) \o <<" ">> \o (IF content # <<>> THEN lower(strip(content)) ELSE <<>>)

\* the dict parse_and_save passes to add_universal_post: normalize_post's fields
\* (content is '' when the source gives none; the URL is modelled by the source
\* and the id it is built from) plus the content hash
PostData(source, source_id, title, content, created_at, score) ==
    [source |-> source, source_id |-> source_id,
     source_url |-> <<source, "/", source_id>>,
     title |-> title, content |-> content,
     created_at |-> created_at, score |-> score,
     content_hash |-> generate_content_hash(title, content)]

\* the upstream posts the parsers can deliver; hacker_news 101 is delivered
\* a second time after its text was removed and its score went up
PostInputs ==
    { PostData("hacker_news",  "101", TitleSaasA,    ContentBuiltIt,   0,        10),
      PostData("hacker_news",  "101", TitleSaasA,    <<>>,             0,        12),
      PostData("reddit",       "201", TitleSaasB,    ContentBuiltThis, Hour,     3),
      PostData("reddit",       "202", TitleSaasA,    ContentBuiltIt,   0,        5),
      PostData("product_hunt", "301", TitleSaasA,    ContentBuiltIt,   2 * Hour, 1),
      PostData("hacker_news",  "103", TitleSaasA,    ContentBuiltIt,   Hour,     2),
      PostData("hacker_news",  "102", TitleFeedGo,   ContentParses,    0,        7),
      PostData("reddit",       "203", TitleFeedRust, ContentBuiltIt,   2 * Hour, 7) }

\* pricing problem
TitlePricing == <<"p","r","i","c","i","n","g"," ","p","r","o","b","l","e","m">>

\* Our pricing problem
TitleOurPricing == <<"O","u","r"," ","p","r","i","c","i","n","g"," ","p","r","o","b","l","e","m">>

\* pricing problem again
TitlePricingAgain == <<"p","r","i","c","i","n","g"," ","p","r","o","b","l","e","m"," ","a","g"
    ,"a","i","n">>

\* we built it
TitleBuiltIt == <<"w","e"," ","b","u","i","l","t"," ","i","t">>

\* NextGen NextGen NextGen NextGen NextGen
ContentNextGen == <<"N","e","x","t","G","e","n"," ","N","e","x","t","G","e","n"," ","N","e","x"
    ,"t","G","e","n"," ","N","e","x","t","G","e","n"," ","N","e","x","t","G","e","n">>

\* also pricing problem
CommentPricing == <<"a","l","s","o"," ","p","r","i","c","i","n","g"," ","p","r","o","b","l","e","m">>

\* upstream posts about one pain ("pricing problem"), one solution ("we built
\* it") and one term (NextGen), in letters and spaces only
TopicPostInputs ==
    { PostData("hacker_news",  "111", TitlePricing,      <<>>,           0,         4),
      PostData("hacker_news",  "112", TitleOurPricing,   <<>>,           30 * Hour, 9),
      PostData("reddit",       "211", TitlePricingAgain, <<>>,           2 * Hour,  2),
      PostData("product_hunt", "311", TitleBuiltIt,      ContentNextGen, 0,         1),
      PostData("reddit",       "213", TitleBuiltIt,      <<>>,           26 * Hour, 6) }

\* the row with the given id
PostById(rows, id) == rows[CHOOSE i \in 1..Len(rows) : rows[i].id = id]

\* autoincrement primary key of the next inserted row
NextId(rows) == IF Len(rows) = 0 THEN 1 ELSE SetMax({rows[i].id : i \in 1..Len(rows)}) + 1

\* UniversalPost(**post_data) after flush: column defaults filled in
UniversalPost(post_data) ==
    [id |-> NextId(posts),
     source |-> post_data.source, source_id |-> post_data.source_id,
     source_url |-> post_data.source_url,
     title |-> post_data.title, content |-> post_data.content,
     created_at |-> post_data.created_at, score |-> post_data.score,
     content_hash |-> post_data.content_hash,
     fetched_at |-> now, updated_at |-> now,
     duplicate_group_id |-> 0]

\* _calculate_similarity: 0.5 * title_sim + 0.3 * content_sim + 0.2 * time_sim
_calculate_similarity(post1, post2) ==
    LET title_sim   == ratio(lower(post1.title), lower(post2.title))
        content_sim == IF post1.content # <<>> /\ post2.content # <<>>
                       THEN ratio(lower(Take(post1.content, 500)),
                                  lower(Take(post2.content, 500)))
                       ELSE <<0, 1>>
        time_diff   == Abs(post1.created_at - post2.created_at)
        time_sim    == Frac(Max(0, Day - time_diff), Day)
    IN  FracAdd(FracAdd(FracMul(title_sim, <<1, 2>>), FracMul(content_sim, <<3, 10>>)),
                FracMul(time_sim, <<1, 5>>))

\* the fields of a post that _calculate_similarity reads
SimKey(p) == [title |-> p.title, content |-> p.content, created_at |-> p.created_at]

\* the posts handed to a direct call of _calculate_similarity
SimilarityInputs ==
    {SimKey(p) : p \in PostInputs \cup TopicPostInputs} \cup
    { [title |-> TitleHiring, content |-> ContentWho, created_at |-> 30 * Hour],
      [title |-> <<>>, content |-> <<>>, created_at |-> 0] }

\* _calculate_similarity tabulated over the posts of the model
similarity_table ==
    {<<k[1], k[2], _calculate_similarity(k[1], k[2])>> : k \in SimilarityInputs \X SimilarityInputs}

\* similarity = self._calculate_similarity(new_post, similar_post)
similarity(new_post, similar_post) ==
    (CHOOSE t \in similarity_table :
        t[1] = SimKey(new_post) /\ t[2] = SimKey(similar_post))[3]

\* SQL: title LIKE '%' || pattern || '%'.  SQLite's LIKE ignores the case of
\* ASCII letters, PostgreSQL's does not.  Titles hold no '%' or '_'.
like(title, pattern, d) ==
    IF d = "sqlite" THEN contains(lower(title), lower(pattern))
    ELSE contains(title, pattern)

TitlePrefixLen == 50

SimilarityThreshold == <<7, 10>>

\* the rows selected by the query of _check_and_link_duplicates
similar_rows(new_post) ==
    {i \in 1..Len(posts) :
        /\ posts[i].id # new_post.id
        /\ posts[i].source # new_post.source
        /\ \/ posts[i].content_hash = new_post.content_hash
           \/ like(posts[i].title, Take(new_post.title, TitlePrefixLen), dialect)}

\* every order in which a query without ORDER BY may return the rows of S
Orders(S) == {f \in [1..Cardinality(S) -> S] : \A i, j \in 1..Cardinality(S) : f[i] = f[j] => i = j}

DuplicateGroup(canonical_title, similarity_score) ==
    [id |-> NextId(groups), canonical_title |-> canonical_title,
     similarity_score |-> similarity_score]

IsDuplicate_AtThreshold(sim) == ~FracGT(SimilarityThreshold, sim)

\* if similarity > 0.7
IsDuplicate(sim) == FracGT(sim, SimilarityThreshold)

\* _check_and_link_duplicates, run on the freshly flushed new_post
_check_and_link_duplicates(new_post) ==
    \E order \in Orders(similar_rows(new_post)) :
        LET sim(k) == similarity(new_post, posts[order[k]])
            hits   == {k \in 1..Len(order) : IsDuplicate(sim(k))}
        IN  /\ similar_posts' = [k \in 1..Len(order) |-> posts[order[k]].id]
            /\ IF hits = {}
               THEN /\ posts' = Append(posts, new_post)
                    /\ groups' = groups
               ELSE LET k == SetMin(hits)
                        similar_post == posts[order[k]]
                    IN  IF similar_post.duplicate_group_id # 0
                        THEN /\ posts' = Append(posts,
                                    [new_post EXCEPT !.duplicate_group_id =
                                                         similar_post.duplicate_group_id])
                             /\ groups' = groups
                        ELSE LET group == DuplicateGroup(new_post.title, sim(k))
                             IN  /\ groups' = Append(groups, group)
                                 /\ posts' = Append(
                                        [posts EXCEPT ![order[k]].duplicate_group_id = group.id],
                                        [new_post EXCEPT !.duplicate_group_id = group.id])

\* the lookup of add_universal_post: rows with post_data's (source, source_id)
existing_rows(post_data) ==
    {i \in 1..Len(posts) : /\ posts[i].source = post_data.source
                           /\ posts[i].source_id = post_data.source_id}

add_universal_post_NoLookup(post_data) ==
    /\ Len(posts) < MaxPosts
    /\ _check_and_link_duplicates(UniversalPost(post_data))
    /\ UNCHANGED <<dialect, comments, signals, now, sim_call, detect_runs>>
    /\ UNCHANGED automation_vars

\* add_universal_post(post_data)
add_universal_post(post_data) ==
    /\ IF existing_rows(post_data) # {}
       THEN LET i == SetMin(existing_rows(post_data))
            IN  /\ posts' = [posts EXCEPT ![i] =
                        [f \in DOMAIN posts[i] |->
                            IF f \in DOMAIN post_data THEN post_data[f]
                            ELSE IF f = "updated_at" THEN now
                            ELSE posts[i][f]]]
                /\ UNCHANGED <<groups, similar_posts>>
       ELSE /\ Len(posts) < MaxPosts
            /\ _check_and_link_duplicates(UniversalPost(post_data))
    /\ UNCHANGED <<dialect, comments, signals, now, sim_call, detect_runs>>
    /\ UNCHANGED automation_vars

AddUniversalPost == \E post_data \in PostInputs : add_universal_post(post_data)

-----------------------------------------------------------------------------
(* Specification of the post store *)

NoCall == [post1 |-> <<>>, post2 |-> <<>>, result |-> <<>>]

InitPosts ==
    /\ posts = <<>>
    /\ groups = <<>>
    /\ similar_posts = <<>>
    /\ dialect \in {"sqlite", "postgresql"}
    /\ comments = <<>>
    /\ signals = <<>>
    /\ now = 40 * Hour
    /\ sim_call = NoCall
    /\ detect_runs = 0
    /\ NoAutomation

NextPosts == AddUniversalPost

SpecPosts == InitPosts /\ [][NextPosts]_vars


-----------------------------------------------------------------------------
(* Signals: add_enhanced_signal and the scoring it applies *)

FracLE(x, y) == x[1] * y[2] <= y[1] * x[2]

FracMin(x, y) == IF FracLE(x, y) THEN x ELSE y

Range(s) == {s[i] : i \in 1..Len(s)}

\* the list f as a tuple: every element is computed once
List(f) == SubSeq(f, 1, Len(f))

\* str.split(): the maximal runs of non-whitespace characters, in order
split(s) ==
    LET starts == {i \in 1..Len(s) :
                      s[i] \notin Whitespace /\ (i = 1 \/ s[i - 1] \in Whitespace)}
        stop(i) == SetMin({j \in i..Len(s) : j = Len(s) \/ s[j + 1] \in Whitespace})
        nth(k)  == CHOOSE i \in starts : Cardinality({j \in starts : j < i}) = k - 1
    IN  List([k \in 1..Cardinality(starts) |-> SubSeq(s, nth(k), stop(nth(k)))])

\* _calculate_signal_importance without the final min(score, 100)
_calculate_signal_importance_Uncapped(signal) ==
    FracAdd(FracAdd(FracAdd(
        <<Min(signal.frequency * 2, 40), 1>>,
        IF FracGT(signal.growth_rate, <<0, 1>>)
        THEN FracMin(FracMul(signal.growth_rate, <<10, 1>>), <<30, 1>>) ELSE <<0, 1>>),
        IF signal.is_cross_source
        THEN <<Min(Cardinality(signal.sources) * 10, 20), 1>> ELSE <<0, 1>>),
        FracMul(signal.confidence_score, <<1, 10>>))

\* _calculate_signal_importance with the source points given to every signal
_calculate_signal_importance_AllSources(signal) ==
    FracMin(FracAdd(FracAdd(FracAdd(
        <<Min(signal.frequency * 2, 40), 1>>,
        IF FracGT(signal.growth_rate, <<0, 1>>)
        THEN FracMin(FracMul(signal.growth_rate, <<10, 1>>), <<30, 1>>) ELSE <<0, 1>>),
        <<Min(Cardinality(signal.sources) * 10, 20), 1>>),
        FracMul(signal.confidence_score, <<1, 10>>)),
        <<100, 1>>)

\* _calculate_signal_importance: frequency (40 points), growth rate (30 points,
\* only when positive), cross-source bonus (20 points, only when is_cross_source),
\* confidence (10 points); sources is the decoded JSON list, kept as a set
_calculate_signal_importance(signal) ==
    FracMin(FracAdd(FracAdd(FracAdd(
        <<Min(signal.frequency * 2, 40), 1>>,
        IF FracGT(signal.growth_rate, <<0, 1>>)
        THEN FracMin(FracMul(signal.growth_rate, <<10, 1>>), <<30, 1>>) ELSE <<0, 1>>),
        IF signal.is_cross_source
        THEN <<Min(Cardinality(signal.sources) * 10, 20), 1>> ELSE <<0, 1>>),
        FracMul(signal.confidence_score, <<1, 10>>)),
        <<100, 1>>)

\* _determine_priority
_determine_priority(importance_score, frequency) ==
    IF FracLE(<<80, 1>>, importance_score) /\ frequency >= 10 THEN "critical"
    ELSE IF FracLE(<<60, 1>>, importance_score) /\ frequency >= 5 THEN "high"
    ELSE IF FracLE(<<40, 1>>, importance_score) THEN "medium"
    ELSE "low"

\* _check_if_trending
_check_if_trending(signal) ==
    IF FracGT(signal.growth_rate, <<1, 2>>) /\ FracGT(signal.velocity, <<1, 1>>)
    THEN now - signal.last_seen < 48 * Hour
    ELSE FALSE

\* EnhancedSignal(**signal_data) as add_enhanced_signal stores it: scored,
\* prioritized, with the column defaults (columns title and description are
\* display text and are left out)
EnhancedSignal(signal_data) ==
    LET importance == _calculate_signal_importance(signal_data)
    IN  [id |-> NextId(signals),
         signal_type |-> signal_data.signal_type,
         keywords |-> signal_data.keywords,
         frequency |-> signal_data.frequency,
         growth_rate |-> signal_data.growth_rate,
         velocity |-> signal_data.velocity,
         sources |-> signal_data.sources,
         context_snippets |-> signal_data.context_snippets,
         example_urls |-> signal_data.example_urls,
         is_cross_source |-> signal_data.is_cross_source,
         confidence_score |-> signal_data.confidence_score,
         first_seen |-> signal_data.first_seen,
         last_seen |-> signal_data.last_seen,
         importance_score |-> importance,
         priority |-> _determine_priority(importance, signal_data.frequency),
         is_trending |-> _check_if_trending(signal_data),
         related_signal_ids |-> <<>>,
         is_active |-> TRUE]

MaxSignals == 3

\* add_enhanced_signal(signal_data)
add_enhanced_signal(signal_data) ==
    /\ Len(signals) < MaxSignals
    /\ signals' = Append(signals, EnhancedSignal(signal_data))
    /\ UNCHANGED <<posts, groups, similar_posts, dialect, comments, now, sim_call, detect_runs>>
    /\ UNCHANGED automation_vars

-----------------------------------------------------------------------------
(* Text analysis of EnhancedSignalDetector *)

\* EnhancedSignalDetector.PAIN_KEYWORDS
PAIN_KEYWORDS ==
    << <<"p","r","o","b","l","e","m">>,
       <<"i","s","s","u","e">>,
       <<"s","t","r","u","g","g","l","e">>,
       <<"d","i","f","f","i","c","u","l","t">>,
       <<"p","a","i","n">>,
       <<"c","h","a","l","l","e","n","g","e">>,
       <<"f","r","u","s","t","r","a","t","e","d">>,
       <<"h","a","r","d">>,
       <<"t","r","o","u","b","l","e">>,
       <<"s","t","u","c","k">>,
       <<"b","r","o","k","e","n">>,
       <<"s","l","o","w">>,
       <<"e","x","p","e","n","s","i","v","e">>,
       <<"c","o","m","p","l","i","c","a","t","e","d">>,
       <<"c","o","n","f","u","s","i","n","g">>,
       <<"a","n","n","o","y","i","n","g">>,
       <<"l","a","c","k","i","n","g">>,
       <<"n","i","g","h","t","m","a","r","e">>,
       <<"t","e","r","r","i","b","l","e">>,
       <<"a","w","f","u","l">>,
       <<"h","a","t","e">>,
       <<"s","u","c","k","s">> >>

\* EnhancedSignalDetector.SOLUTION_KEYWORDS
SOLUTION_KEYWORDS ==
    << <<"b","u","i","l","t">>,
       <<"c","r","e","a","t","e","d">>,
       <<"m","a","d","e">>,
       <<"s","o","l","u","t","i","o","n">>,
       <<"w","o","r","k","a","r","o","u","n","d">>,
       <<"f","i","x","e","d">>,
       <<"s","o","l","v","e","d">>,
       <<"i","m","p","l","e","m","e","n","t","e","d">>,
       <<"d","e","v","e","l","o","p","e","d">>,
       <<"t","o","o","l">>,
       <<"s","c","r","i","p","t">>,
       <<"h","a","c","k">>,
       <<"a","u","t","o","m","a","t","e","d">>,
       <<"o","p","t","i","m","i","z","e","d">>,
       <<"i","m","p","r","o","v","e","d">> >>

\* clean_html: the texts of the model hold no '<' and no '&', so the tag and
\* entity substitutions leave them alone and only the strip() acts
clean_html(text) == strip(text)

\* str.find: 0-based index of the first occurrence, -1 when there is none
find(hay, needle) ==
    LET at == {start \in 0..(Len(hay) - Len(needle)) :
                  \A k \in 1..Len(needle) : hay[start + k] = needle[k]}
    IN  IF at = {} THEN -1 ELSE SetMin(at)

Ellipsis == <<".", ".", ".">>

\* _extract_context(text, keyword, window)
_extract_context(text, keyword, window) ==
    LET cleaned == clean_html(text)
        pos     == find(lower(cleaned), lower(keyword))
        start   == Max(0, pos - window)
        end     == Min(Len(cleaned), pos + Len(keyword) + window)
        snippet == strip(SubSeq(cleaned, start + 1, end))
    IN  IF pos = -1 THEN Take(cleaned, 200)
        ELSE (IF start > 0 THEN Ellipsis ELSE <<>>) \o snippet \o
             (IF end < Len(cleaned) THEN Ellipsis ELSE <<>>)

\* ' '.join(words)
RECURSIVE join(_)
join(words) ==
    IF words = <<>> THEN <<>>
    ELSE IF Len(words) = 1 THEN Head(words)
    ELSE Head(words) \o <<" ">> \o join(Tail(words))

\* the topic _extract_pain_topics files a mention under: the word before the
\* first word that contains the keyword, the keyword, and the word after it
topic_of(context, keyword) ==
    LET words == split(lower(context))
        hits  == {i \in 1..Len(words) : contains(words[i], keyword)}
    IN  IF hits = {} THEN keyword
        ELSE LET idx == SetMin(hits)
             IN  join((IF idx > 1 THEN <<words[idx - 1]>> ELSE <<>>) \o <<keyword>> \o
                      (IF idx < Len(words) THEN <<words[idx + 1]>> ELSE <<>>))

KeywordWindow == 100

TermWindow == 80

\* the mentions one text yields for a keyword list, as <<position of the
\* keyword in the list, context, topic>>
keyword_mentions(text, keywords) ==
    {<<k, _extract_context(text, keywords[k], KeywordWindow),
          topic_of(_extract_context(text, keywords[k], KeywordWindow), keywords[k])>> :
        k \in {j \in 1..Len(keywords) : contains(lower(text), keywords[j])}}

LowerCaseSet == {LowerCase[i] : i \in 1..26}

\* TECH_PATTERNS[0] on a text of letters and spaces: \b[A-Z][a-z]+(?:[A-Z][a-z]+)+\b
\* matches exactly the whole words made of two or more capitalized runs
is_camel_case(word) ==
    /\ \A i \in 1..Len(word) : word[i] \in UpperCaseSet \cup LowerCaseSet
    /\ Cardinality({i \in 1..Len(word) : word[i] \in UpperCaseSet}) >= 2
    /\ Len(word) >= 1 /\ word[1] \in UpperCaseSet
    /\ \A i \in 1..Len(word) :
          word[i] \in UpperCaseSet => i < Len(word) /\ word[i + 1] \in LowerCaseSet

MinTermLen == 4

\* the mentions one text yields for TECH_PATTERNS, as <<term, context>> in the
\* order re.findall returns the matches; the texts of the model hold no '-'
\* and no '.', so the kebab-case and dotted patterns match nothing
term_mentions(text) ==
    LET words   == split(text)
        matches == SelectSeq(words, LAMBDA w : is_camel_case(w) /\ Len(w) >= MinTermLen)
    IN  List([n \in 1..Len(matches) |->
                 <<matches[n], _extract_context(text, matches[n], TermWindow)>>])

\* text = f"{post.title} {post.content or ''}"
post_text(post) == post.title \o <<" ">> \o post.content

\* the comments the parsers can deliver for a stored post
CommentData(post, source_id, content, created_at, score) ==
    [source |-> post.source, source_id |-> source_id, post_id |-> post.id,
     content |-> content, created_at |-> created_at, score |-> score]

\* the texts the detection passes read
PostTexts == {post_text(d) : d \in TopicPostInputs}

CommentTexts == {CommentPricing}

\* keyword_mentions and term_mentions tabulated over the texts of the model
pain_table == {<<text, keyword_mentions(text, PAIN_KEYWORDS)>> : text \in PostTexts \cup CommentTexts}

solution_table == {<<text, keyword_mentions(text, SOLUTION_KEYWORDS)>> : text \in PostTexts}

term_table == {<<text, term_mentions(text)>> : text \in PostTexts}

\* the tabulated mentions of a text
mentions_in(table, text) == (CHOOSE t \in table : t[1] = text)[2]

\* the keywords column of every signal the detection passes can store
DetectedKeywords ==
    UNION {{m[3] : m \in t[2]} : t \in pain_table \cup solution_table} \cup
    UNION {{t[2][n][1] : n \in 1..Len(t[2])} : t \in term_table}

-----------------------------------------------------------------------------
(* Keywords of the signals handed to add_enhanced_signal *)

\* pricing problem
KwPricingProblem == <<"p","r","i","c","i","n","g"," ","p","r","o","b","l","e","m">>

\* pricing issue
KwPricingIssue == <<"p","r","i","c","i","n","g"," ","i","s","s","u","e">>

\* api problem slow
KwApiSlow == <<"a","p","i"," ","p","r","o","b","l","e","m"," ","s","l","o","w">>

\* api problem slow today
KwApiSlowToday == <<"a","p","i"," ","p","r","o","b","l","e","m"," ","s","l","o","w"," ","t","o"
    ,"d","a","y">>

\* api problem broken
KwApiBroken == <<"a","p","i"," ","p","r","o","b","l","e","m"," ","b","r","o","k","e","n">>

\* Pricing Problem
KwPricingProblemCaps == <<"P","r","i","c","i","n","g"," ","P","r","o","b","l","e","m">>

Digits == <<"1", "2", "3", "4", "5">>

LookbackDays == 7

\* the dict a detection pass hands to add_enhanced_signal; tag names the
\* snippets and URLs of this signal, n_contexts (at most 5) is their number
SignalData(signal_type, keywords, frequency, growth_rate, sources, confidence, n_contexts, tag) ==
    [signal_type |-> signal_type,
     keywords |-> keywords,
     frequency |-> frequency,
     growth_rate |-> growth_rate,
     velocity |-> FracMul(growth_rate, <<1, Max(LookbackDays, 1)>>),
     sources |-> sources,
     context_snippets |-> [k \in 1..n_contexts |-> <<tag, Digits[k]>>],
     example_urls |-> [k \in 1..n_contexts |-> <<"/", tag, Digits[k]>>],
     is_cross_source |-> Cardinality(sources) > 1,
     confidence_score |-> confidence,
     first_seen |-> 0,
     last_seen |-> 30 * Hour]

\* signals as the detection passes produce them, and signals of large
\* magnitude (frequency 1000, growth rate 1000, confidence above 100) and of
\* negative growth handed to add_enhanced_signal directly
SignalInputs ==
    { SignalData("pain", KwPricingProblem, 5, <<1, 2>>, {"hacker_news"}, <<35, 1>>, 5, "a"),
      SignalData("pain", KwPricingProblemCaps, 3, <<1, 1>>, {"reddit"}, <<27, 1>>, 3, "b"),
      SignalData("pain", KwApiSlow, 10, <<0, 1>>, {"hacker_news", "reddit"}, <<100, 1>>, 5, "d"),
      SignalData("pain", KwApiSlowToday, 1000, <<1000, 1>>,
                 {"hacker_news", "reddit", "product_hunt"}, <<150, 1>>, 5, "e"),
      SignalData("pain", KwApiBroken, 4, <<0, 1>>, {"hacker_news"}, <<31, 1>>, 4, "f"),
      SignalData("solution", KwPricingProblem, 2, <<0, 1>>, {"hacker_news"}, <<30, 1>>, 2, "i"),
      SignalData("pain", KwPricingIssue, 3, <<-1, 2>>, {"reddit"}, <<27, 1>>, 3, "j") }

AddEnhancedSignal == \E signal_data \in SignalInputs : add_enhanced_signal(signal_data)

-----------------------------------------------------------------------------
(* The merge pass of EnhancedSignalDetector *)

\* _keyword_similarity: Jaccard overlap of the lowercased, whitespace-split words
_keyword_similarity(keywords1, keywords2) ==
    LET words1 == Range(split(lower(keywords1)))
        words2 == Range(split(lower(keywords2)))
    IN  IF words1 = {} \/ words2 = {} THEN <<0, 1>>
        ELSE Frac(Cardinality(words1 \cap words2), Cardinality(words1 \cup words2))

\* the keyword strings signals of the model carry
KeywordInputs == {d.keywords : d \in SignalInputs} \cup DetectedKeywords

\* _keyword_similarity tabulated over the keyword strings of the model
keyword_similarity_table ==
    {<<k[1], k[2], _keyword_similarity(k[1], k[2])>> : k \in KeywordInputs \X KeywordInputs}

\* similarity = self._keyword_similarity(signal1.keywords, signal2.keywords)
keyword_similarity(keywords1, keywords2) ==
    (CHOOSE t \in keyword_similarity_table : t[1] = keywords1 /\ t[2] = keywords2)[3]

MergeThreshold == <<7, 10>>

IsSimilar_Half(sim) == ~FracGT(<<1, 2>>, sim)

\* if similarity > 0.7
IsSimilar(sim) == FracGT(sim, MergeThreshold)

RECURSIVE SumFrequency(_, _)
SumFrequency(table, idx) ==
    IF idx = <<>> THEN 0
    ELSE table[Head(idx)].frequency + SumFrequency(table, Tail(idx))

\* the lists field of the rows idx, one after the other
RECURSIVE Extend(_, _, _)
Extend(table, idx, field) ==
    IF idx = <<>> THEN <<>>
    ELSE table[Head(idx)][field] \o Extend(table, Tail(idx), field)

ContextLimit == 10

\* _merge_signals without the frequencies of the merged signals
_merge_signals_KeepFrequency(table, primary, similar) ==
    [i \in 1..Len(table) |->
        IF i = primary
        THEN LET merged == [table[primary] EXCEPT
                     !.sources = @ \cup UNION {table[s].sources : s \in Range(similar)},
                     !.context_snippets = Take(@ \o Extend(table, similar, "context_snippets"),
                                               ContextLimit),
                     !.example_urls = Take(@ \o Extend(table, similar, "example_urls"),
                                           ContextLimit),
                     !.related_signal_ids = [k \in 1..Len(similar) |-> table[similar[k]].id]]
                 rescored == [merged EXCEPT !.is_cross_source = Cardinality(merged.sources) > 1]
                 importance == _calculate_signal_importance(rescored)
             IN  [rescored EXCEPT !.importance_score = importance,
                                  !.priority = _determine_priority(importance, rescored.frequency)]
        ELSE IF i \in Range(similar) THEN [table[i] EXCEPT !.is_active = FALSE]
        ELSE table[i]]

\* _merge_signals without the recalculation of the priority
_merge_signals_StalePriority(table, primary, similar) ==
    [i \in 1..Len(table) |->
        IF i = primary
        THEN LET merged == [table[primary] EXCEPT
                     !.frequency = @ + SumFrequency(table, similar),
                     !.sources = @ \cup UNION {table[s].sources : s \in Range(similar)},
                     !.context_snippets = Take(@ \o Extend(table, similar, "context_snippets"),
                                               ContextLimit),
                     !.example_urls = Take(@ \o Extend(table, similar, "example_urls"),
                                           ContextLimit),
                     !.related_signal_ids = [k \in 1..Len(similar) |-> table[similar[k]].id]]
                 rescored == [merged EXCEPT !.is_cross_source = Cardinality(merged.sources) > 1]
                 importance == _calculate_signal_importance(rescored)
             IN  [rescored EXCEPT !.importance_score = importance]
        ELSE IF i \in Range(similar) THEN [table[i] EXCEPT !.is_active = FALSE]
        ELSE table[i]]

\* _merge_signals(primary_signal, similar_signals) on the rows of table:
\* primary and similar are row numbers
_merge_signals(table, primary, similar) ==
    [i \in 1..Len(table) |->
        IF i = primary
        THEN LET merged == [table[primary] EXCEPT
                     !.frequency = @ + SumFrequency(table, similar),
                     !.sources = @ \cup UNION {table[s].sources : s \in Range(similar)},
                     !.context_snippets = Take(@ \o Extend(table, similar, "context_snippets"),
                                               ContextLimit),
                     !.example_urls = Take(@ \o Extend(table, similar, "example_urls"),
                                           ContextLimit),
                     !.related_signal_ids = [k \in 1..Len(similar) |-> table[similar[k]].id]]
                 rescored == [merged EXCEPT !.is_cross_source = Cardinality(merged.sources) > 1]
                 importance == _calculate_signal_importance(rescored)
             IN  [rescored EXCEPT !.importance_score = importance,
                                  !.priority = _determine_priority(importance, rescored.frequency)]
        ELSE IF i \in Range(similar) THEN [table[i] EXCEPT !.is_active = FALSE]
        ELSE table[i]]

\* the loop over the signals of one type: type_signals are row numbers in
\* query order, i the position reached, merged_ids the ids merged so far
RECURSIVE merge_type_signals(_, _, _, _)
merge_type_signals(table, type_signals, i, merged_ids) ==
    IF i > Len(type_signals) THEN table
    ELSE LET signal1 == type_signals[i]
             similar_signals ==
                 SelectSeq(type_signals, LAMBDA signal2 :
                     /\ signal2 # signal1
                     /\ table[signal2].id \notin merged_ids
                     /\ IsSimilar(keyword_similarity(table[signal1].keywords,
                                                     table[signal2].keywords)))
         IN  IF table[signal1].id \in merged_ids \/ similar_signals = <<>>
             THEN merge_type_signals(table, type_signals, i + 1, merged_ids)
             ELSE merge_type_signals(_merge_signals(table, signal1, similar_signals),
                                     type_signals, i + 1,
                                     merged_ids \cup {table[s].id : s \in Range(similar_signals)})

\* the loop over by_type: types are the signal types still to process
RECURSIVE merge_by_type(_, _, _)
merge_by_type(table, active, types) ==
    IF types = <<>> THEN table
    ELSE merge_by_type(
             merge_type_signals(table,
                 SelectSeq(active, LAMBDA s : table[s].signal_type = Head(types)), 1, {}),
             active,
             SelectSeq(Tail(types), LAMBDA t : t # Head(types)))

\* _merge_cross_source_signals: the active signals come back from the query in
\* some order; by_type keeps the types in the order of their first signal
_merge_cross_source_signals ==
    /\ \E active \in Orders({i \in 1..Len(signals) : signals[i].is_active}) :
           signals' = merge_by_type(signals, active,
                                    [k \in 1..Len(active) |-> signals[active[k]].signal_type])
    /\ UNCHANGED <<posts, groups, similar_posts, dialect, comments, now, sim_call, detect_runs>>
    /\ UNCHANGED automation_vars

-----------------------------------------------------------------------------
(* Specification of the signal store *)

InitSignals ==
    /\ posts = <<>>
    /\ groups = <<>>
    /\ similar_posts = <<>>
    /\ dialect = "sqlite"
    /\ comments = <<>>
    /\ signals = <<>>
    /\ now = 40 * Hour
    /\ sim_call = NoCall
    /\ detect_runs = 0
    /\ NoAutomation

NextSignals == AddEnhancedSignal \/ _merge_cross_source_signals

SpecSignals == InitSignals /\ [][NextSignals]_vars


-----------------------------------------------------------------------------
(* The detection passes of EnhancedSignalDetector *)

MaxComments == 1

MaxRuns == 2

MinMentions == 3

MinTermMentions == 5

MinSolutionMentions == 2

SnippetLimit == 5

\* the rows a query with fetched_at >= cutoff_date returns, by row number; the
\* loops take them in row order
recent(rows, lookback_days) ==
    {i \in 1..Len(rows) : rows[i].fetched_at >= now - lookback_days * Day}

\* a set of mentions as the list the loops build it in: by row (pos), then by
\* position of the keyword or match (k)
appended(mentions) ==
    LET before(a, b) == a.pos < b.pos \/ (a.pos = b.pos /\ a.k < b.k)
    IN  List([n \in 1..Cardinality(mentions) |->
                 CHOOSE m \in mentions : Cardinality({x \in mentions : before(x, m)}) = n - 1])

\* a defaultdict(list) filled by appending the elements of seq under their
\* key: its items() as <<key, list>> in insertion order of the keys
dict_items(seq) ==
    LET keys     == {seq[n].key : n \in 1..Len(seq)}
        first(x) == SetMin({n \in 1..Len(seq) : seq[n].key = x})
        nth(r)   == CHOOSE x \in keys : Cardinality({y \in keys : first(y) < first(x)}) = r - 1
    IN  List([r \in 1..Cardinality(keys) |->
                 <<nth(r), SelectSeq(seq, LAMBDA m : m.key = nth(r))>>])

\* the lists of items, one after the other
RECURSIVE values_in_order(_)
values_in_order(items) ==
    IF items = <<>> THEN <<>> ELSE Head(items)[2] \o values_in_order(Tail(items))

\* the mentions keyed by their topic
by_topic(mentions) == List([n \in 1..Len(mentions) |-> [mentions[n] EXCEPT !.key = mentions[n].topic]])

\* _extract_pain_topics(pain_mentions): the mentions of pain_mentions.items(),
\* filed under their topics
_extract_pain_topics(mention_items) ==
    dict_items(by_topic(values_in_order(mention_items)))

\* the mentions the loop over the recent posts appends for a keyword list
post_mentions(lookback_days, keywords, table) ==
    UNION {{[key |-> keywords[m[1]], k |-> m[1], pos |-> i,
             context |-> m[2], topic |-> m[3],
             url |-> posts[i].source_url, source |-> posts[i].source,
             score |-> posts[i].score, timestamp |-> posts[i].created_at] :
                m \in mentions_in(table, post_text(posts[i]))} :
           i \in recent(posts, lookback_days)}

\* the mentions the loop over the recent comments appends: those of comments
\* whose parent post is stored, with the post's URL and source
comment_mentions(lookback_days) ==
    UNION {{[key |-> PAIN_KEYWORDS[m[1]], k |-> m[1], pos |-> Len(posts) + c,
             context |-> m[2], topic |-> m[3],
             url |-> PostById(posts, comments[c].post_id).source_url,
             source |-> PostById(posts, comments[c].post_id).source,
             score |-> comments[c].score, timestamp |-> comments[c].created_at] :
                m \in mentions_in(pain_table, comments[c].content)} :
           c \in {x \in recent(comments, lookback_days) :
                     \E i \in 1..Len(posts) : posts[i].id = comments[x].post_id}}

\* the mentions the loop over the recent posts appends for TECH_PATTERNS
post_terms(lookback_days) ==
    UNION {{[key |-> mentions_in(term_table, post_text(posts[i]))[n][1], k |-> n, pos |-> i,
             context |-> mentions_in(term_table, post_text(posts[i]))[n][2],
             url |-> posts[i].source_url, source |-> posts[i].source,
             timestamp |-> posts[i].created_at] :
                n \in 1..Len(mentions_in(term_table, post_text(posts[i])))} :
           i \in recent(posts, lookback_days)}

\* _calculate_growth_rate: the mentions sorted by timestamp and cut in the
\* middle; (len(second_half) - len(first_half)) / len(first_half)
_calculate_growth_rate(mentions, lookback_days) ==
    LET mid_point == Len(mentions) \div 2
    IN  IF Len(mentions) < 2 \/ mid_point = 0 THEN <<0, 1>>
        ELSE Frac((Len(mentions) - mid_point) - mid_point, mid_point)

Timestamps(mentions) == {mentions[n].timestamp : n \in 1..Len(mentions)}

Sources(mentions) == {mentions[n].source : n \in 1..Len(mentions)}

\* _calculate_confidence: frequency (40 points), time spread in whole days
\* over the lookback (30 points), sources (30 points)
_calculate_confidence(mentions, lookback_days) ==
    LET time_span == (SetMax(Timestamps(mentions)) - SetMin(Timestamps(mentions))) \div Day
    IN  FracMin(FracAdd(FracAdd(
            <<Min(Len(mentions) * 4, 40), 1>>,
            IF Len(mentions) > 1
            THEN FracMin(Frac(time_span * 30, lookback_days), <<30, 1>>) ELSE <<0, 1>>),
            <<Min(Cardinality(Sources(mentions)) * 15, 30), 1>>),
            <<100, 1>>)

\* sorted(mentions, key=score, reverse=True)[:5]: the sort is stable
top_contexts(mentions) ==
    LET before(a, b) == \/ mentions[a].score > mentions[b].score
                        \/ mentions[a].score = mentions[b].score /\ a < b
        nth(n) == CHOOSE a \in 1..Len(mentions) :
                      Cardinality({x \in 1..Len(mentions) : before(x, a)}) = n - 1
    IN  List([n \in 1..Min(SnippetLimit, Len(mentions)) |-> mentions[nth(n)]])

\* the signal_data dict the three passes build for one topic or term
signal_data_of(signal_type, keywords, mentions, shown, confidence, lookback_days) ==
    [signal_type |-> signal_type,
     keywords |-> keywords,
     frequency |-> Len(mentions),
     growth_rate |-> _calculate_growth_rate(mentions, lookback_days),
     velocity |-> FracMul(_calculate_growth_rate(mentions, lookback_days),
                          <<1, Max(lookback_days, 1)>>),
     sources |-> Sources(mentions),
     context_snippets |-> List([n \in 1..Len(shown) |-> shown[n].context]),
     example_urls |-> List([n \in 1..Len(shown) |-> shown[n].url]),
     is_cross_source |-> Cardinality(Sources(mentions)) > 1,
     confidence_score |-> confidence,
     first_seen |-> SetMin(Timestamps(mentions)),
     last_seen |-> SetMax(Timestamps(mentions))]

\* detect_repeating_pains: the signal_data of every topic with min_mentions
\* mentions or more, in the order of pain_topics.items()
detect_repeating_pains(lookback_days, min_mentions) ==
    LET pain_mentions ==
            dict_items(appended(post_mentions(lookback_days, PAIN_KEYWORDS, pain_table))
                       \o appended(comment_mentions(lookback_days)))
        pain_topics == SelectSeq(_extract_pain_topics(pain_mentions),
                                 LAMBDA item : Len(item[2]) >= min_mentions)
    IN  List([n \in 1..Len(pain_topics) |->
                 signal_data_of("pain", pain_topics[n][1], pain_topics[n][2],
                                top_contexts(pain_topics[n][2]),
                                _calculate_confidence(pain_topics[n][2], lookback_days),
                                lookback_days)])

\* detect_emerging_language: the signal_data of every term with 5 mentions or more
detect_emerging_language(lookback_days) ==
    LET terms == SelectSeq(dict_items(appended(post_terms(lookback_days))),
                           LAMBDA item : Len(item[2]) >= MinTermMentions)
    IN  List([n \in 1..Len(terms) |->
                 signal_data_of("language", terms[n][1], terms[n][2],
                                Take(terms[n][2], SnippetLimit),
                                <<Min(Len(terms[n][2]) * 10, 100), 1>>, lookback_days)])

\* detect_solution_patterns: the signal_data of every topic with 2 mentions or more
detect_solution_patterns(lookback_days) ==
    LET solution_mentions ==
            dict_items(appended(post_mentions(lookback_days, SOLUTION_KEYWORDS,
                                              solution_table)))
        solution_topics == SelectSeq(_extract_pain_topics(solution_mentions),
                                     LAMBDA item : Len(item[2]) >= MinSolutionMentions)
    IN  List([n \in 1..Len(solution_topics) |->
                 signal_data_of("solution", solution_topics[n][1], solution_topics[n][2],
                                Take(solution_topics[n][2], SnippetLimit),
                                <<Min(Len(solution_topics[n][2]) * 15, 100), 1>>,
                                lookback_days)])

\* detect_all_signals(lookback_days, min_mentions): the three passes hand their
\* signals (found) to add_enhanced_signal one after the other, which leaves
\* table; then the merge pass runs over table
detect_all_signals(lookback_days, min_mentions) ==
    /\ detect_runs < MaxRuns
    /\ \E found \in {detect_repeating_pains(lookback_days, min_mentions)
                      \o detect_emerging_language(lookback_days)
                      \o detect_solution_patterns(lookback_days)} :
       \E table \in {signals \o List([n \in 1..Len(found) |->
                        [EnhancedSignal(found[n]) EXCEPT !.id = NextId(signals) + n - 1]])} :
          /\ Len(table) <= MaxSignals
          /\ \E active \in Orders({i \in 1..Len(table) : table[i].is_active}) :
                 signals' = merge_by_type(table, active,
                                [k \in 1..Len(active) |-> table[active[k]].signal_type])
    /\ detect_runs' = detect_runs + 1
    /\ UNCHANGED <<posts, groups, similar_posts, dialect, comments, now, sim_call>>
    /\ UNCHANGED automation_vars

\* the min_mentions the scheduler (3) and the API's callers pass
MinMentionsInputs == {2, MinMentions}

DetectAllSignals ==
    \E min_mentions \in MinMentionsInputs : detect_all_signals(LookbackDays, min_mentions)

AddTopicPost == \E post_data \in TopicPostInputs : add_universal_post(post_data)

\* UniversalComment(**comment_data) after commit
UniversalComment(comment_data) ==
    [id |-> NextId(comments),
     source |-> comment_data.source, source_id |-> comment_data.source_id,
     post_id |-> comment_data.post_id, content |-> comment_data.content,
     score |-> comment_data.score, created_at |-> comment_data.created_at,
     fetched_at |-> now]

\* add_universal_comment(comment_data)
add_universal_comment(comment_data) ==
    LET existing == {c \in 1..Len(comments) :
                        /\ comments[c].source = comment_data.source
                        /\ comments[c].source_id = comment_data.source_id}
    IN  /\ IF existing # {}
           THEN comments' = [comments EXCEPT ![SetMin(existing)] =
                    [f \in DOMAIN @ |-> IF f \in DOMAIN comment_data
                                        THEN comment_data[f] ELSE @[f]]]
           ELSE /\ Len(comments) < MaxComments
                /\ comments' = Append(comments, UniversalComment(comment_data))
        /\ UNCHANGED <<posts, groups, similar_posts, dialect, signals, now, sim_call, detect_runs>>
        /\ UNCHANGED automation_vars

\* parse_and_save stores the comments of a post it stored: hacker_news 111 has
\* one comment upstream
AddUniversalComment ==
    \E i \in 1..Len(posts) :
        /\ posts[i].source = "hacker_news" /\ posts[i].source_id = "111"
        /\ add_universal_comment(CommentData(posts[i], "c1", CommentPricing, 5 * Hour, 0))

-----------------------------------------------------------------------------
(* Specification of detection over the post store *)

InitDetect ==
    /\ posts = <<>>
    /\ groups = <<>>
    /\ similar_posts = <<>>
    /\ dialect = "sqlite"
    /\ comments = <<>>
    /\ signals = <<>>
    /\ now = 40 * Hour
    /\ sim_call = NoCall
    /\ detect_runs = 0
    /\ NoAutomation

NextDetect == AddTopicPost \/ AddUniversalComment \/ DetectAllSignals

SpecDetect == InitDetect /\ [][NextDetect]_vars

-----------------------------------------------------------------------------
(* Direct calls of _calculate_similarity *)

CalculateSimilarity ==
    /\ sim_call.result = <<>>
    /\ sim_call' = [sim_call EXCEPT !.result = similarity(sim_call.post1, sim_call.post2)]
    /\ UNCHANGED <<posts, groups, similar_posts, dialect, comments, signals, now, detect_runs>>
    /\ UNCHANGED automation_vars

InitSimilarity ==
    /\ posts = <<>>
    /\ groups = <<>>
    /\ similar_posts = <<>>
    /\ dialect = "sqlite"
    /\ comments = <<>>
    /\ signals = <<>>
    /\ now = 40 * Hour
    /\ \E p \in SimilarityInputs, q \in SimilarityInputs :
           sim_call = [post1 |-> p, post2 |-> q, result |-> <<>>]
    /\ detect_runs = 0
    /\ NoAutomation

NextSimilarity == CalculateSimilarity

SpecSimilarity == InitSimilarity /\ [][NextSimilarity]_vars


-----------------------------------------------------------------------------
(* Topic selection: TopicSelector and the used-topic methods of the manager. *)
(* A topic's keywords are a list of texts.                                    *)

\* ["AI", "agents"]
TopicAIAgents == << <<"A","I">>, <<"a","g","e","n","t","s">> >>

\* ["ai", "agent"]
TopicAiAgent == << <<"a","i">>, <<"a","g","e","n","t">> >>

\* [" ai ", "AGENTS"]
TopicAiAgentsSpaced == << <<" ","a","i"," ">>, <<"A","G","E","N","T","S">> >>

\* ["ai"]
TopicAi == << <<"a","i">> >>

\* ["rust"]
TopicRust == << <<"r","u","s","t">> >>

\* the keyword lists topics of the model carry
TopicKeywordInputs == {TopicAIAgents, TopicAiAgent, TopicAiAgentsSpaced, TopicAi, TopicRust}

\* set(k.lower().strip() for k in keywords)
normalized(keywords) == {strip(lower(keywords[n])) : n \in 1..Len(keywords)}

DefaultSimilarityThreshold == <<1, 2>>

\* _are_topics_similar with similarity > threshold
_are_topics_similar_Above(keywords1, keywords2, threshold) ==
    LET set1 == normalized(keywords1)
        set2 == normalized(keywords2)
    IN  IF set1 = {} \/ set2 = {} THEN FALSE
        ELSE FracGT(Frac(Cardinality(set1 \cap set2), Cardinality(set1 \cup set2)), threshold)

\* _are_topics_similar(keywords1, keywords2, threshold): Jaccard overlap of the
\* normalized keyword sets, similarity >= threshold; False when a set is empty
_are_topics_similar(keywords1, keywords2, threshold) ==
    LET set1 == normalized(keywords1)
        set2 == normalized(keywords2)
    IN  IF set1 = {} \/ set2 = {} THEN FALSE
        ELSE ~FracGT(threshold, Frac(Cardinality(set1 \cap set2), Cardinality(set1 \cup set2)))

\* _are_topics_similar tabulated over the keyword lists and thresholds of the model
ThresholdInputs == {DefaultSimilarityThreshold, <<1, 3>>}

topics_similar_table ==
    {<<k[1], k[2], k[3], _are_topics_similar(k[1], k[2], k[3])>> :
        k \in TopicKeywordInputs \X TopicKeywordInputs \X ThresholdInputs}

are_topics_similar(keywords1, keywords2, threshold) ==
    (CHOOSE t \in topics_similar_table :
        t[1] = keywords1 /\ t[2] = keywords2 /\ t[3] = threshold)[4]

MaxUsedTopics == 2

\* the UsedTopic row mark_topic_as_used builds; keywords is the JSON text of
\* the list, which json.loads reads back as the same list of strings, and
\* keywords_hash is written and never read
UsedTopic(keywords, content_id, topic_id, post_count, source_type) ==
    [id |-> NextId(used_topics), topic_id |-> topic_id, keywords |-> keywords,
     content_id |-> content_id, post_count |-> post_count,
     source_type |-> source_type, used_at |-> now]

\* mark_topic_as_used(keywords, content_id, topic_id, post_count, source_type)
mark_topic_as_used(keywords, content_id, topic_id, post_count, source_type) ==
    /\ Len(used_topics) < MaxUsedTopics
    /\ used_topics' = Append(used_topics,
                          UsedTopic(keywords, content_id, topic_id, post_count, source_type))

\* is_topic_used_recently(keywords, exclude_days, similarity_threshold): a row
\* with used_at >= now - exclude_days days is similar
is_topic_used_recently(keywords, exclude_days, similarity_threshold) ==
    \E i \in {i \in 1..Len(used_topics) : used_topics[i].used_at >= now - exclude_days * Day} :
        are_topics_similar(keywords, used_topics[i].keywords, similarity_threshold)

\* _get_posts_for_topic(keywords): ids of the posts of the last 7 days whose
\* title or content contains one of the first 5 keywords, whatever the letter
\* case (ILIKE); the store holds fewer posts than the limits 20 and 15
posts_for_topic(keywords) ==
    {posts[i].id : i \in
        {i \in 1..Len(posts) :
            /\ posts[i].created_at >= now - LookbackDays * Day
            /\ \E n \in 1..Min(Len(keywords), 5) :
                  \/ contains(lower(posts[i].title), lower(keywords[n]))
                  \/ contains(lower(posts[i].content), lower(keywords[n]))}}

TrendingHours == 72

TrendingImportance == 50

\* a row of table topics; created_at is a timezone-aware timestamp
TopicRow(topic_id, keywords, post_count, avg_importance, created_at) ==
    [topic_id |-> topic_id, keywords |-> keywords, post_count |-> post_count,
     avg_importance |-> avg_importance, created_at |-> created_at]

\* the topic dict _get_available_topics builds from a row
TopicDict(row) ==
    [topic_id |-> row.topic_id, keywords |-> row.keywords, post_count |-> row.post_count,
     avg_importance |-> row.avg_importance,
     is_trending |-> /\ now - row.created_at < TrendingHours * Hour
                     /\ row.avg_importance > TrendingImportance,
     posts |-> posts_for_topic(row.keywords)]

\* _get_available_topics(min_posts): the rows with post_count >= min_posts,
\* ORDER BY post_count DESC, avg_importance DESC (no two rows of the model tie
\* on both), as topic dicts
_get_available_topics(min_posts) ==
    LET rows == {i \in 1..Len(topics) : topics[i].post_count >= min_posts}
        before(a, b) ==
            \/ topics[a].post_count > topics[b].post_count
            \/ /\ topics[a].post_count = topics[b].post_count
               /\ topics[a].avg_importance > topics[b].avg_importance
    IN  List([n \in 1..Cardinality(rows) |->
                 TopicDict(topics[CHOOSE i \in rows :
                               Cardinality({j \in rows : before(j, i)}) = n - 1])])

\* max(unused_topics, key=lambda t: t['post_count']): the first of the largest
max_post_count(unused_topics) ==
    unused_topics[SetMin({n \in 1..Len(unused_topics) :
                      \A m \in 1..Len(unused_topics) :
                          unused_topics[m].post_count <= unused_topics[n].post_count})]

RetryDays == 7

\* the caller of select_next_topic and its arguments; no call is in progress
NoSelection ==
    [pc |-> "idle", exclude_days |-> 0, prefer_trending |-> FALSE, min_posts |-> 0,
     requested_days |-> 0, result |-> <<>>]

\* values of TOPIC_EXCLUDE_DAYS: the default, one above the retry limit, a negative one
ExcludeDaysInputs == {30, 8, -1}

DefaultMinPosts == 3

TestMinPosts == 2

\* select_next_topic is called (AutoContentSystem._select_topic, test_components)
CallSelectNextTopic ==
    /\ selection.pc = "idle"
    /\ \E exclude_days \in ExcludeDaysInputs, prefer_trending \in BOOLEAN,
          min_posts \in {DefaultMinPosts, TestMinPosts} :
           selection' = [pc |-> "call", exclude_days |-> exclude_days,
                         prefer_trending |-> prefer_trending, min_posts |-> min_posts,
                         requested_days |-> exclude_days, result |-> <<>>]
    /\ UNCHANGED <<topics, used_topics, used_query, now>>
    /\ UNCHANGED storage_vars
    /\ UNCHANGED service_vars

\* select_next_topic without the filter on recently used topics
select_next_topic_NoFilter ==
    /\ selection.pc = "call"
    /\ \E available_topics \in {_get_available_topics(selection.min_posts)} :
       \E trending_topics \in {SelectSeq(available_topics, LAMBDA t : t.is_trending)} :
          selection' = [selection EXCEPT !.pc = "done", !.result =
              IF available_topics = <<>> THEN <<>>
              ELSE IF selection.prefer_trending /\ trending_topics # <<>>
                   THEN <<trending_topics[1]>>
                   ELSE <<max_post_count(available_topics)>>]
    /\ UNCHANGED <<topics, used_topics, used_query, now>>
    /\ UNCHANGED storage_vars
    /\ UNCHANGED service_vars

\* select_next_topic that gives up when every topic was used recently
select_next_topic_NoRetry ==
    /\ selection.pc = "call"
    /\ \E available_topics \in {_get_available_topics(selection.min_posts)} :
       \E unused_topics \in {SelectSeq(available_topics, LAMBDA t :
              ~is_topic_used_recently(t.keywords, selection.exclude_days,
                                      DefaultSimilarityThreshold))} :
       \E trending_topics \in {SelectSeq(unused_topics, LAMBDA t : t.is_trending)} :
          selection' = [selection EXCEPT !.pc = "done", !.result =
              IF unused_topics = <<>> THEN <<>>
              ELSE IF selection.prefer_trending /\ trending_topics # <<>>
                   THEN <<trending_topics[1]>>
                   ELSE <<max_post_count(unused_topics)>>]
    /\ UNCHANGED <<topics, used_topics, used_query, now>>
    /\ UNCHANGED storage_vars
    /\ UNCHANGED service_vars

\* select_next_topic(exclude_days, prefer_trending, min_posts): one activation;
\* the recursive call is the next activation, with the window halved, and the
\* result is a list, empty for None
select_next_topic ==
    /\ selection.pc = "call"
    /\ \E available_topics \in {_get_available_topics(selection.min_posts)} :
       \E unused_topics \in {SelectSeq(available_topics, LAMBDA t :
              ~is_topic_used_recently(t.keywords, selection.exclude_days,
                                      DefaultSimilarityThreshold))} :
       \E trending_topics \in {SelectSeq(unused_topics, LAMBDA t : t.is_trending)} :
          selection' =
              IF available_topics = <<>>
              THEN [selection EXCEPT !.pc = "done", !.result = <<>>]
              ELSE IF unused_topics = <<>>
              THEN IF selection.exclude_days > RetryDays
                   THEN [selection EXCEPT !.exclude_days = selection.exclude_days \div 2]
                   ELSE [selection EXCEPT !.pc = "done", !.result = <<available_topics[1]>>]
              ELSE IF selection.prefer_trending /\ trending_topics # <<>>
              THEN [selection EXCEPT !.pc = "done", !.result = <<trending_topics[1]>>]
              ELSE [selection EXCEPT !.pc = "done", !.result = <<max_post_count(unused_topics)>>]
    /\ UNCHANGED <<topics, used_topics, used_query, now>>
    /\ UNCHANGED storage_vars
    /\ UNCHANGED service_vars

\* TopicSelector.mark_topic_used(topic, content_id), by the caller that
\* generated content for the selected topic
mark_topic_used(content_id) ==
    /\ selection.pc = "done"
    /\ selection.result # <<>>
    /\ mark_topic_as_used(selection.result[1].keywords, content_id,
                          selection.result[1].topic_id, selection.result[1].post_count, "topic")
    /\ selection' = NoSelection
    /\ UNCHANGED <<topics, used_query, now>>
    /\ UNCHANGED storage_vars
    /\ UNCHANGED service_vars

\* the caller drops the result without marking it (no topic found, content not
\* generated, test_components)
DropSelection ==
    /\ selection.pc = "done"
    /\ selection' = NoSelection
    /\ UNCHANGED <<topics, used_topics, used_query, now>>
    /\ UNCHANGED storage_vars
    /\ UNCHANGED service_vars

\* mark_topic_as_used(keywords) called with its defaults (None is 0)
MarkTopicAsUsed ==
    /\ selection.pc = "idle"
    /\ used_query = <<>>
    /\ \E keywords \in TopicKeywordInputs : mark_topic_as_used(keywords, 0, 0, 0, "topic")
    /\ UNCHANGED <<topics, selection, used_query, now>>
    /\ UNCHANGED storage_vars
    /\ UNCHANGED service_vars

\* a direct call of is_topic_used_recently, the last call of a run, its result kept
IsTopicUsedRecently ==
    /\ selection.pc = "idle"
    /\ used_query = <<>>
    /\ \E keywords \in TopicKeywordInputs, exclude_days \in ExcludeDaysInputs,
          similarity_threshold \in ThresholdInputs :
           used_query' = <<[keywords |-> keywords, exclude_days |-> exclude_days,
                            similarity_threshold |-> similarity_threshold,
                            result |-> is_topic_used_recently(keywords, exclude_days,
                                                              similarity_threshold)]>>
    /\ UNCHANGED <<topics, used_topics, selection, now>>
    /\ UNCHANGED storage_vars
    /\ UNCHANGED service_vars

MaxTicks == 2

ClockStep == 10 * Day

\* ten days pass between two calls
PassDays ==
    /\ selection.pc = "idle"
    /\ used_query = <<>>
    /\ now < 40 * Hour + MaxTicks * ClockStep
    /\ now' = now + ClockStep
    /\ UNCHANGED automation_vars
    /\ UNCHANGED storage_vars

\* the tables of topics the analytics may have left
TopicTables ==
    { <<>>,
      << TopicRow(1, TopicAIAgents, 4, 40, 0) >>,
      << TopicRow(1, TopicRust,     5, 60, 30 * Hour),
         TopicRow(2, TopicAIAgents, 9, 40, 0),
         TopicRow(3, TopicAiAgent,  5, 70, 0),
         TopicRow(4, TopicAi,       2, 80, 0) >> }

InitTopics ==
    /\ posts = <<>>
    /\ groups = <<>>
    /\ similar_posts = <<>>
    /\ dialect = "sqlite"
    /\ comments = <<>>
    /\ signals = <<>>
    /\ now = 40 * Hour
    /\ sim_call = NoCall
    /\ detect_runs = 0
    /\ topics \in TopicTables
    /\ used_topics = <<>>
    /\ selection = NoSelection
    /\ used_query = <<>>
    /\ NoServices

\* topics are selected, used and marked, one call at a time
NextTopics ==
    \/ CallSelectNextTopic
    \/ select_next_topic
    \/ \E content_id \in {1} : mark_topic_used(content_id)
    \/ DropSelection
    \/ PassDays

SpecTopics == InitTopics /\ [][NextTopics]_vars

\* select_next_topic runs to its return once called
SpecTopicsFair == SpecTopics /\ WF_vars(select_next_topic)

\* topics are marked by direct calls and looked up
NextUsedTopics ==
    \/ MarkTopicAsUsed
    \/ IsTopicUsedRecently
    \/ PassDays

InitUsedTopics == InitTopics /\ topics = <<>>

SpecUsedTopics == InitUsedTopics /\ [][NextUsedTopics]_vars
-----------------------------------------------------------------------------
(* The analyzers: AIAnalyzer.analyze_post and ContentGenerator            *)
(* A call's input is the answer of the LLM service: a request error, or   *)
(* the text of the completion.                                            *)

\* the grave accent, which no string of the module can hold, and the fence of three of them
GraveAccent == "grave"
Fence == <<GraveAccent, GraveAccent, GraveAccent>>
\* json
JsonTag == <<"j","s","o","n">>
\* Sorry, no JSON
TextProse == <<"S","o","r","r","y",","," ","n","o"," ","J","S","O","N">>
\* {"summary": "Ok", "category": "Problem"}
TextAnalysis == <<"{","\"","s","u","m","m","a","r","y","\"",":"," ","\"","O","k","\"",","," ","\""
    ,"c","a","t","e","g","o","r","y","\"",":"," ","\"","P","r","o","b","l","e","m","\"","}">>
\* {"summary": null}
TextNullSummary == <<"{","\"","s","u","m","m","a","r","y","\"",":"," ","n","u","l","l","}">>
\* ["Ok"]
TextArray == <<"[","\"","O","k","\"","]">>
\* {"title": "T", "content": "Body"}
TextPost == <<"{","\"","t","i","t","l","e","\"",":"," ","\"","T","\"",","," ","\"","c","o","n","t"
    ,"e","n","t","\"",":"," ","\"","B","o","d","y","\"","}">>
\* {"tweets": ["One", "Two"]}
TextThread == <<"{","\"","t","w","e","e","t","s","\"",":"," ","[","\"","O","n","e","\"",","," ","\""
    ,"T","w","o","\"","]","}">>
\* the completion wrapped in a markdown code block, with and without a language tag
TextAnalysisFenced == Fence \o JsonTag \o <<" ">> \o TextAnalysis \o <<" ">> \o Fence
TextPostFenced == Fence \o <<" ">> \o TextPost \o <<" ">> \o Fence

ResponseTexts == {TextProse, TextAnalysis, TextAnalysisFenced, TextNullSummary, TextArray,
                  TextPost, TextPostFenced, TextThread}

\* what client.chat.completions.create gives: it raises, or returns a completion
LLMResponses == {[error |-> TRUE, content |-> <<>>]}
                \cup {[error |-> FALSE, content |-> text] : text \in ResponseTexts}

\* Python values: a tag for the type and the value itself
PyStr(text) == [t |-> "str", v |-> text]
PyList(items) == [t |-> "list", v |-> items]
PyNull == [t |-> "null", v |-> <<>>]
PyDict(items) == [t |-> "dict", v |-> items]

\* what a block of statements does: it returns a value or raises an exception
Returns(value) == [raises |-> "", value |-> value]
Raises(exception) == [raises |-> exception, value |-> PyNull]

\* s.startswith(prefix)
startswith(s, prefix) == Len(s) >= Len(prefix) /\ SubSeq(s, 1, Len(prefix)) = prefix

\* text.split(fence)[1] for a text that starts with the fence
after_fence(text) ==
    LET rest == SubSeq(text, Len(Fence) + 1, Len(text))
        close == find(rest, Fence)
    IN  IF close = -1 THEN rest ELSE SubSeq(rest, 1, close)

\* the removal of a markdown code block around the completion
strip_code_block(text) ==
    IF startswith(text, Fence)
    THEN LET inner == after_fence(text)
         IN  strip(IF startswith(inner, JsonTag)
                   THEN SubSeq(inner, Len(JsonTag) + 1, Len(inner))
                   ELSE inner)
    ELSE text

\* json.loads, on the documents of ResponseTexts; any other text is not JSON
json_loads(text) ==
    CASE text = TextAnalysis ->
             Returns(PyDict([summary |-> PyStr(<<"O", "k">>),
                             category |-> PyStr(<<"P", "r", "o", "b", "l", "e", "m">>)]))
      [] text = TextNullSummary -> Returns(PyDict([summary |-> PyNull]))
      [] text = TextArray -> Returns(PyList(<< <<"O", "k">> >>))
      [] text = TextPost ->
             Returns(PyDict([title |-> PyStr(<<"T">>),
                             content |-> PyStr(<<"B", "o", "d", "y">>)]))
      [] text = TextThread ->
             Returns(PyDict([tweets |-> PyList(<< <<"O", "n", "e">>, <<"T", "w", "o">> >>)]))
      [] OTHER -> Raises("JSONDecodeError")

\* d.get(key, default)
get(d, key, default) == IF key \in DOMAIN d.v THEN d.v[key] ELSE default

\* value[:n] raises for a value that is no sequence, value.lower() for one that is no str
Sliceable(value) == value.t \in {"str", "list"}
Lowerable(value) == value.t = "str"

\* the dict built from the parsed document in analyze_post
analysis_of(result) ==
    LET summary      == get(result, "summary", PyStr(<<>>))
        category     == get(result, "category", PyStr(<<"d","i","s","c","u","s","s","i","o","n">>))
        sentiment    == get(result, "sentiment", PyStr(<<"n","e","u","t","r","a","l">>))
        key_insights == get(result, "key_insights", PyList(<<>>))
        technologies == get(result, "technologies", PyList(<<>>))
        companies    == get(result, "companies", PyList(<<>>))
        topic_list   == get(result, "topics", PyList(<<>>))
    IN  IF result.t # "dict" THEN Raises("AttributeError")
        ELSE IF ~Sliceable(summary) THEN Raises("TypeError")
        ELSE IF ~Lowerable(category) \/ ~Lowerable(sentiment) THEN Raises("AttributeError")
        ELSE IF \E value \in {key_insights, technologies, companies, topic_list} :
                    ~Sliceable(value)
        THEN Raises("TypeError")
        ELSE Returns([summary      |-> [summary EXCEPT !.v = Take(summary.v, 200)],
                      category     |-> PyStr(lower(category.v)),
                      sentiment    |-> PyStr(lower(sentiment.v)),
                      key_insights |-> [key_insights EXCEPT !.v = Take(key_insights.v, 5)],
                      technologies |-> [technologies EXCEPT !.v = Take(technologies.v, 10)],
                      companies    |-> [companies EXCEPT !.v = Take(companies.v, 10)],
                      topics       |-> [topic_list EXCEPT !.v = Take(topic_list.v, 5)]])

\* the neutral answer of analyze_post
NeutralAnalysis ==
    [summary      |-> PyStr(<<>>),
     category     |-> PyStr(<<"d","i","s","c","u","s","s","i","o","n">>),
     sentiment    |-> PyStr(<<"n","e","u","t","r","a","l">>),
     key_insights |-> PyList(<<>>),
     technologies |-> PyList(<<>>),
     companies    |-> PyList(<<>>),
     topics       |-> PyList(<<>>)]

\* the try block of analyze_post
analyze_post_try(response) ==
    IF response.error THEN Raises("APIError")
    ELSE LET result == json_loads(strip_code_block(strip(response.content)))
         IN  IF result.raises # "" THEN result ELSE analysis_of(result.value)

\* an analyze_post whose handler catches the decoding error only
analyze_post_DecodeOnly(response) ==
    LET body == analyze_post_try(response)
    IN  IF body.raises = "JSONDecodeError" THEN Returns(NeutralAnalysis) ELSE body

\* analyze_post(title, content); the prompt does not decide what the call returns
analyze_post(response) ==
    LET body == analyze_post_try(response)
    IN  IF body.raises # "" THEN Returns(NeutralAnalysis) ELSE body

FormatTypes == {"long_post", "reel", "thread"}

\* _call_ai(prompt)
_call_ai(response) ==
    IF response.error THEN Raises("APIError") ELSE Returns(strip(response.content))

\* len(text) for each text of a list, summed
RECURSIVE sum_len(_)
sum_len(items) == IF items = <<>> THEN 0 ELSE Len(Head(items)) + sum_len(Tail(items))

\* _parse_generated_content(ai_response, format_type)
_parse_generated_content(ai_response, format_type) ==
    LET parsed  == json_loads(strip_code_block(ai_response))
        content == IF format_type = "thread"
                   THEN get(parsed.value, "tweets", PyList(<<>>))
                   ELSE get(parsed.value, "content", PyStr(<<>>))
    IN  IF parsed.raises # "" THEN Raises("ValueError")
        ELSE IF parsed.value.t # "dict" THEN Raises("AttributeError")
        ELSE IF ~Sliceable(content) THEN Raises("TypeError")
        ELSE Returns([content    |-> content,
                      title      |-> get(parsed.value, "title", PyStr(<<>>)),
                      hashtags   |-> get(parsed.value, "hashtags", PyList(<<>>)),
                      key_points |-> get(parsed.value, "key_points", PyList(<<>>)),
                      word_count |-> IF format_type = "thread" /\ content.t = "list"
                                     THEN sum_len(content.v) ELSE Len(content.v)])

\* generate_from_cluster(cluster_posts, format_type): cluster_posts are post ids
generate_from_cluster(cluster_posts, format_type, response) ==
    IF cluster_posts = <<>> \/ format_type \notin FormatTypes THEN Raises("ValueError")
    ELSE LET generated == _call_ai(response)
             result == _parse_generated_content(generated.value, format_type)
         IN  IF generated.raises # "" THEN generated
             ELSE IF result.raises # "" THEN result
             ELSE Returns([content      |-> result.value.content,
                           title        |-> result.value.title,
                           hashtags     |-> result.value.hashtags,
                           key_points   |-> result.value.key_points,
                           word_count   |-> result.value.word_count,
                           source_posts |-> cluster_posts,
                           format       |-> format_type])

MaxCalls == 2

\* a caller asks for the analysis of a post
AnalyzePost ==
    /\ Len(llm_calls) < MaxCalls
    /\ \E response \in LLMResponses :
           llm_calls' = Append(llm_calls, [function |-> "analyze_post", response |-> response,
                                           cluster_posts |-> <<>>, format_type |-> "",
                                           outcome |-> analyze_post(response)])
    /\ UNCHANGED <<topics, used_topics, selection, used_query, now, workflow, generated_content>>
    /\ UNCHANGED storage_vars
    /\ UNCHANGED <<parsing_vars, growth_call, job_vars>>

\* a caller asks for content about a cluster of posts
GenerateFromCluster ==
    /\ Len(llm_calls) < MaxCalls
    /\ \E response \in LLMResponses, cluster_posts \in {<<>>, <<1, 2>>},
          format_type \in FormatTypes \cup {"story"} :
           /\ cluster_posts = <<>> => format_type = "long_post"
           /\ llm_calls' = Append(llm_calls,
               [function |-> "generate_from_cluster", response |-> response,
                cluster_posts |-> cluster_posts, format_type |-> format_type,
                outcome |-> generate_from_cluster(cluster_posts, format_type, response)])
    /\ UNCHANGED <<topics, used_topics, selection, used_query, now, workflow, generated_content>>
    /\ UNCHANGED storage_vars
    /\ UNCHANGED <<parsing_vars, growth_call, job_vars>>

InitAnalyzers == InitPosts /\ dialect = "sqlite"

NextAnalyzers == AnalyzePost \/ GenerateFromCluster

SpecAnalyzers == InitAnalyzers /\ [][NextAnalyzers]_vars
-----------------------------------------------------------------------------
(* The automation workflow: AutoContentSystem.generate_and_post            *)

\* self.config with its defaults
WorkflowConfig ==
    [topic_exclude_days |-> 30, topic_prefer_trending |-> TRUE,
     topic_min_posts |-> DefaultMinPosts, content_format |-> "long_post",
     enable_reel |-> TRUE, enable_telegram |-> TRUE]

MaxContents == 2

\* the ids of a set, in ascending order
ascending(ids) ==
    List([n \in 1..Cardinality(ids) |->
             CHOOSE id \in ids : Cardinality({other \in ids : other < id}) = n - 1])

\* _get_posts_for_topic(topic): the stored posts whose id the topic lists
_get_posts_for_topic(topic) ==
    ascending({id \in topic.posts : \E i \in 1..Len(posts) : posts[i].id = id})

\* _generate_content(posts): the generated content, or None as <<>>
_generate_content(cluster_posts, response) ==
    LET generated == generate_from_cluster(cluster_posts, WorkflowConfig.content_format, response)
    IN  IF generated.raises # "" THEN <<>> ELSE <<generated.value>>

\* GeneratedContent(...) after commit
GeneratedContent(content_data) ==
    [id |-> NextId(generated_content), format_type |-> content_data.format,
     title |-> content_data.title, content |-> content_data.content,
     source_description |-> content_data.source_description,
     source_posts |-> content_data.source_posts,
     is_published |-> FALSE, platform |-> "None", created_at |-> now]

\* the table after mark_content_published(content_id, platform)
mark_content_published(rows, content_id, platform) ==
    [i \in 1..Len(rows) |->
        IF i = SetMin({j \in 1..Len(rows) : rows[j].id = content_id} \cup {Len(rows) + 1})
        THEN [rows[i] EXCEPT !.is_published = TRUE, !.platform = platform]
        ELSE rows[i]]

\* generate_and_post up to the call of select_next_topic in _select_topic
StartGenerateAndPost ==
    /\ workflow.pc = "idle"
    /\ selection.pc = "idle"
    /\ Len(generated_content) < MaxContents
    /\ Len(used_topics) < MaxUsedTopics
    /\ workflow' = [NoWorkflow EXCEPT !.pc = "select"]
    /\ selection' = [pc |-> "call", exclude_days |-> WorkflowConfig.topic_exclude_days,
                     prefer_trending |-> WorkflowConfig.topic_prefer_trending,
                     min_posts |-> WorkflowConfig.topic_min_posts,
                     requested_days |-> WorkflowConfig.topic_exclude_days, result |-> <<>>]
    /\ UNCHANGED <<topics, used_topics, used_query, now, llm_calls, generated_content>>
    /\ UNCHANGED storage_vars
    /\ UNCHANGED <<parsing_vars, growth_call, job_vars>>

\* the result dict and the tables after steps 2 to 7, for a selected topic, its posts,
\* the content generated from them and the outcome of each database write, of the reel
\* and of the posting
steps_after_selection(topic, post_ids, content, save_ok, mark_ok, reel_ok, post_ok, publish_ok) ==
    LET result   == [NoWorkflow.result EXCEPT !.topic = <<topic>>]
        row      == GeneratedContent([format |-> WorkflowConfig.content_format,
                                      title |-> content[1].title,
                                      content |-> content[1].content,
                                      source_description |-> Take(topic.keywords, 3),
                                      source_posts |-> topic.posts])
        saved    == Append(generated_content, row)
        marked   == IF mark_ok
                    THEN Append(used_topics, UsedTopic(topic.keywords, row.id, topic.topic_id,
                                                       topic.post_count, "topic"))
                    ELSE used_topics
        image    == IF WorkflowConfig.enable_reel /\ reel_ok THEN "reel.png" ELSE "None"
        failed   == (IF mark_ok THEN {} ELSE {"mark_topic_used"})
                    \cup (IF WorkflowConfig.enable_reel /\ ~reel_ok THEN {"reel"} ELSE {})
    IN  IF post_ids = <<>>
        THEN [result |-> [result EXCEPT !.error = "No posts found for topic"],
              failed |-> {"posts"}, contents |-> generated_content, used |-> used_topics]
        ELSE IF content = <<>>
        THEN [result |-> [result EXCEPT !.error = "Content generation failed"],
              failed |-> {"generate"}, contents |-> generated_content, used |-> used_topics]
        ELSE IF ~save_ok
        THEN [result |-> [result EXCEPT !.error = "Failed to save content to database"],
              failed |-> {"save"}, contents |-> generated_content, used |-> used_topics]
        ELSE IF ~WorkflowConfig.enable_telegram
        THEN [result |-> [result EXCEPT !.content_id = row.id, !.image_path = image,
                                        !.success = TRUE],
              failed |-> failed, contents |-> saved, used |-> marked]
        ELSE IF ~post_ok
        THEN [result |-> [result EXCEPT !.content_id = row.id, !.image_path = image,
                                        !.error = "Telegram posting failed", !.success = TRUE],
              failed |-> failed \cup {"telegram"}, contents |-> saved, used |-> marked]
        ELSE [result |-> [result EXCEPT !.content_id = row.id, !.image_path = image,
                                        !.message_id = 1, !.success = TRUE],
              failed |-> failed \cup (IF publish_ok THEN {} ELSE {"publish"}),
              contents |-> IF publish_ok THEN mark_content_published(saved, row.id, "telegram")
                           ELSE saved,
              used |-> marked]

\* a generate_and_post that deletes the saved row when the posting fails
generate_and_post_Unwind ==
    /\ workflow.pc = "select"
    /\ selection.pc = "done"
    /\ selection.result # <<>>
    /\ \E response \in LLMResponses, save_ok, mark_ok, reel_ok, post_ok, publish_ok \in BOOLEAN :
       \E post_ids \in {_get_posts_for_topic(selection.result[1])} :
       \E content \in {_generate_content(post_ids, response)} :
       \E after \in {steps_after_selection(selection.result[1], post_ids, content, save_ok,
                                           mark_ok, reel_ok, post_ok, publish_ok)} :
           /\ workflow' = [pc |-> "done", result |-> after.result, failed |-> after.failed]
           /\ generated_content' = IF "telegram" \in after.failed THEN generated_content
                                   ELSE after.contents
           /\ used_topics' = after.used
    /\ selection' = NoSelection
    /\ UNCHANGED <<topics, used_query, now, llm_calls>>
    /\ UNCHANGED storage_vars
    /\ UNCHANGED <<parsing_vars, growth_call, job_vars>>

\* generate_and_post from the return of select_next_topic to its own return
generate_and_post ==
    /\ workflow.pc = "select"
    /\ selection.pc = "done"
    /\ IF selection.result = <<>>
       THEN /\ workflow' = [pc |-> "done", failed |-> {"select"},
                            result |-> [NoWorkflow.result EXCEPT
                                            !.error = "No suitable topic found"]]
            /\ UNCHANGED <<generated_content, used_topics>>
       ELSE \E response \in LLMResponses,
               save_ok, mark_ok, reel_ok, post_ok, publish_ok \in BOOLEAN :
            \E post_ids \in {_get_posts_for_topic(selection.result[1])} :
            \E content \in {_generate_content(post_ids, response)} :
            \E after \in {steps_after_selection(selection.result[1], post_ids, content,
                                                save_ok, mark_ok, reel_ok, post_ok,
                                                publish_ok)} :
                /\ workflow' = [pc |-> "done", result |-> after.result,
                                failed |-> after.failed]
                /\ generated_content' = after.contents
                /\ used_topics' = after.used
    /\ selection' = NoSelection
    /\ UNCHANGED <<topics, used_query, now, llm_calls>>
    /\ UNCHANGED storage_vars
    /\ UNCHANGED <<parsing_vars, growth_call, job_vars>>

\* the caller has the result; the next scheduled run can start
ReturnResult ==
    /\ workflow.pc = "done"
    /\ workflow' = NoWorkflow
    /\ UNCHANGED <<topics, used_topics, selection, used_query, now, llm_calls,
                   generated_content>>
    /\ UNCHANGED storage_vars
    /\ UNCHANGED <<parsing_vars, growth_call, job_vars>>

\* a parser stores a post that mentions "ai" before the workflow runs
StoreTopicPost ==
    /\ workflow.pc = "idle"
    /\ posts = <<>>
    /\ add_universal_post(PostData("reddit", "211", TitlePricingAgain, <<>>, 2 * Hour, 2))

InitWorkflow == InitTopics

NextWorkflow ==
    StartGenerateAndPost \/ select_next_topic \/ generate_and_post \/ ReturnResult
    \/ StoreTopicPost

SpecWorkflow == InitWorkflow /\ [][NextWorkflow]_vars
-----------------------------------------------------------------------------
(* Parsing: /api/parse, run_parser and the ParserOrchestrator              *)
(* The model registers two of the parsers, with some of their sections;    *)
(* the upstream delivers no posts, so a section stores nothing but its     *)
(* ParserRun.                                                              *)

\* what the parser does not touch
parse_frame == <<topics, used_topics, selection, used_query, now, llm_calls, workflow,
                 generated_content, writers, growth_call, runs, poster, scheduler,
                 storage_vars>>

\* self.parsers, in registration order
RegisteredSources == <<"reddit", "techcrunch">>

\* parser.get_available_sections()
get_available_sections(source_name) ==
    IF source_name = "reddit" THEN <<"startups", "SaaS">> ELSE <<"main">>

\* the sources of a request: None (as <<>>) for all, or a list, one of whose names may
\* have no parser
SourcesInputs ==
    {<<>>, <<"reddit", "techcrunch">>, <<"techcrunch", "reddit">>, <<"medium", "reddit">>}

\* what the upstream and the database do to one section: the feed is empty, the request
\* fails, or a database write fails
SectionOutcomes == {"empty", "fetch_error", "db_error"}

\* fetch_posts: TechCrunchParser re-raises a failed request, RedditParser logs it and
\* returns []
fetch_posts_raises(source_name, outcome) ==
    outcome = "fetch_error" /\ source_name = "techcrunch"

\* the names the module base_parser binds at import: its import statements
BaseParserImports ==
    {"ABC", "abstractmethod", "List", "Dict", "Optional", "datetime", "timezone", "hashlib"}

\* ParserRun(source, section, status='running') after commit
ParserRun(source_name, section) ==
    [id |-> NextId(parser_runs), source |-> source_name, section |-> section,
     status |-> "running", items_fetched |-> 0, error_message |-> "None"]

\* the table after finish_parser_run(run_id, items_fetched, status, error)
finish_parser_run(rows, run_id, items_fetched, status, error) ==
    [i \in 1..Len(rows) |->
        IF i = SetMin({j \in 1..Len(rows) : rows[j].id = run_id} \cup {Len(rows) + 1})
        THEN [rows[i] EXCEPT !.items_fetched = items_fetched, !.status = status,
                             !.error_message = error]
        ELSE rows[i]]

\* parse_and_save(db_manager, section, limit): what it raises ("" when it returns),
\* table parser_runs after it, and whether it got as far as fetch_posts.  The database
\* refuses the first write, or start_parser_run commits the run; the next statement
\* evaluates timedelta, a name the module never binds; the try block fetches and
\* finishes the run
parse_and_save(source_name, section, outcome) ==
    LET run == ParserRun(source_name, section)
        started == Append(parser_runs, run)
    IN  IF outcome = "db_error"
        THEN [raises |-> "OperationalError", runs |-> parser_runs, fetched |-> FALSE]
        ELSE IF "timedelta" \notin BaseParserImports
        THEN [raises |-> "NameError", runs |-> started, fetched |-> FALSE]
        ELSE IF fetch_posts_raises(source_name, outcome)
        THEN [raises |-> "RequestException", fetched |-> TRUE,
              runs |-> finish_parser_run(started, run.id, 0, "failed", "RequestException")]
        ELSE [raises |-> "", fetched |-> TRUE,
              runs |-> finish_parser_run(started, run.id, 0, "success", "None")]

\* a start_parsing that starts the thread whatever the flag says
start_parsing_NoGuard(t) ==
    /\ parse_threads[t].pc = "idle"
    /\ \E sources \in SourcesInputs :
           parse_threads' = [parse_threads EXCEPT ![t].pc = "started",
                                                  ![t].sources = sources,
                                                  ![t].read_running = parser_status.is_running]
    /\ UNCHANGED <<parser_status, orchestrator>>
    /\ UNCHANGED parser_runs
    /\ UNCHANGED parse_frame

\* start_parsing(): the handler of POST /api/parse
start_parsing(t) ==
    /\ parse_threads[t].pc = "idle"
    /\ IF parser_status.is_running
       THEN parse_threads' = [parse_threads EXCEPT ![t].pc = "rejected",
                                                   ![t].read_running = TRUE]
       ELSE \E sources \in SourcesInputs :
                parse_threads' = [parse_threads EXCEPT ![t].pc = "started",
                                                       ![t].sources = sources]
    /\ UNCHANGED <<parser_status, orchestrator>>
    /\ UNCHANGED parser_runs
    /\ UNCHANGED parse_frame

\* run_parser(sources, limit): the first statements of the thread
run_parser(t) ==
    /\ parse_threads[t].pc = "started"
    /\ parser_status' = [parser_status EXCEPT !.is_running = TRUE]
    /\ parse_threads' =
           IF parse_threads[t].sources # <<>>
           THEN [parse_threads EXCEPT ![t].pc = "parsing",
                                      ![t].sources_left = parse_threads[t].sources]
           ELSE [parse_threads EXCEPT ![t].pc = "parse_all"]
    /\ UNCHANGED orchestrator
    /\ UNCHANGED parser_runs
    /\ UNCHANGED parse_frame

\* parse_all: the test of status['is_running']; RuntimeError ends the thread's work
parse_all_check(t) ==
    /\ parse_threads[t].pc = "parse_all"
    /\ parse_threads' = [parse_threads EXCEPT ![t].pc =
           IF orchestrator.is_running THEN "finally" ELSE "parse_all_set"]
    /\ UNCHANGED <<parser_status, orchestrator>>
    /\ UNCHANGED parser_runs
    /\ UNCHANGED parse_frame

\* parse_all: status['is_running'] = True, status['errors'] = []
parse_all_set(t) ==
    /\ parse_threads[t].pc = "parse_all_set"
    /\ orchestrator' = [is_running |-> TRUE, errors |-> <<>>]
    /\ parse_threads' = [parse_threads EXCEPT ![t].pc = "parsing",
                                              ![t].sources_left = RegisteredSources]
    /\ UNCHANGED parser_status
    /\ UNCHANGED parser_runs
    /\ UNCHANGED parse_frame

\* parse_source(source_name) up to its loop: ValueError for a name without parser, which
\* run_parser does not catch per source
parse_source(t) ==
    /\ parse_threads[t].pc = "parsing"
    /\ parse_threads[t].current_source = "None"
    /\ parse_threads[t].sources_left # <<>>
    /\ \E source_name \in {Head(parse_threads[t].sources_left)} :
           parse_threads' =
               IF source_name \in Range(RegisteredSources)
               THEN [parse_threads EXCEPT
                        ![t].current_source = source_name,
                        ![t].sections_left = get_available_sections(source_name),
                        ![t].sources_left = Tail(parse_threads[t].sources_left)]
               ELSE [parse_threads EXCEPT ![t].pc = "finally"]
    /\ UNCHANGED <<parser_status, orchestrator>>
    /\ UNCHANGED parser_runs
    /\ UNCHANGED parse_frame

\* one pass of the loop of parse_source: parse_and_save, and the handler that records
\* what it raises
parse_section(t) ==
    /\ parse_threads[t].pc = "parsing"
    /\ parse_threads[t].current_source # "None"
    /\ \E outcome \in SectionOutcomes :
       \E saved \in {parse_and_save(parse_threads[t].current_source,
                                     Head(parse_threads[t].sections_left), outcome)} :
           /\ parse_threads' = [parse_threads EXCEPT
                  ![t].parsed = Append(parse_threads[t].parsed,
                                       [source |-> parse_threads[t].current_source,
                                        section |-> Head(parse_threads[t].sections_left),
                                        fetched |-> saved.fetched,
                                        raised |-> saved.raises]),
                  ![t].sections_left = Tail(parse_threads[t].sections_left),
                  ![t].current_source = IF Len(parse_threads[t].sections_left) = 1
                                        THEN "None" ELSE parse_threads[t].current_source]
           /\ parser_runs' = saved.runs
           /\ orchestrator' =
                  IF saved.raises # ""
                  THEN [orchestrator EXCEPT !.errors = Append(orchestrator.errors,
                            [source |-> parse_threads[t].current_source,
                             section |-> Head(parse_threads[t].sections_left),
                             error |-> saved.raises])]
                  ELSE orchestrator
    /\ UNCHANGED parser_status
    /\ UNCHANGED parse_frame

\* the loop over the sources is over: the finally block of parse_all, when parse_all ran
parse_end(t) ==
    /\ parse_threads[t].pc = "parsing"
    /\ parse_threads[t].current_source = "None"
    /\ parse_threads[t].sources_left = <<>>
    /\ orchestrator' = IF parse_threads[t].sources = <<>>
                       THEN [orchestrator EXCEPT !.is_running = FALSE]
                       ELSE orchestrator
    /\ parse_threads' = [parse_threads EXCEPT ![t].pc = "finally"]
    /\ UNCHANGED parser_status
    /\ UNCHANGED parser_runs
    /\ UNCHANGED parse_frame

\* the finally block of run_parser
run_parser_finally(t) ==
    /\ parse_threads[t].pc = "finally"
    /\ parser_status' = [parser_status EXCEPT !.is_running = FALSE]
    /\ parse_threads' = [parse_threads EXCEPT ![t].pc = "finished"]
    /\ UNCHANGED orchestrator
    /\ UNCHANGED parser_runs
    /\ UNCHANGED parse_frame

InitParse == InitPosts /\ dialect = "sqlite"

\* one request
NextParse ==
    \/ start_parsing(1)
    \/ run_parser(1)
    \/ parse_all_check(1)
    \/ parse_all_set(1)
    \/ parse_source(1)
    \/ parse_section(1)
    \/ parse_end(1)
    \/ run_parser_finally(1)

SpecParse == InitParse /\ [][NextParse]_vars

\* two requests
NextParseRequests ==
    \E t \in Threads :
        \/ start_parsing(t)
        \/ run_parser(t)
        \/ parse_all_check(t)
        \/ parse_all_set(t)
        \/ parse_source(t)
        \/ parse_section(t)
        \/ parse_end(t)
        \/ run_parser_finally(t)

SpecParseRequests == InitParse /\ [][NextParseRequests]_vars
-----------------------------------------------------------------------------
(* add_universal_post called from two threads that share the manager       *)

\* the posts the two threads are handed: one pair twice, and another pair
WriterInputs ==
    { PostData("hacker_news", "101", TitleSaasA, ContentBuiltIt,   0,    10),
      PostData("hacker_news", "101", TitleSaasA, <<>>,             0,    12),
      PostData("reddit",      "201", TitleSaasB, ContentBuiltThis, Hour, 3) }

\* add_universal_post: the query for a row of the same source and source_id
add_universal_post_query(t) ==
    /\ writers[t].pc = "idle"
    /\ \E post_data \in WriterInputs :
           writers' = [writers EXCEPT ![t] =
               [pc |-> "queried", post_data |-> <<post_data>>,
                existing |-> IF existing_rows(post_data) = {} THEN 0
                             ELSE posts[SetMin(existing_rows(post_data))].id]]
    /\ UNCHANGED <<topics, used_topics, selection, used_query, now, llm_calls, workflow,
                   generated_content, parser_status, orchestrator, parse_threads, growth_call, job_vars>>
    /\ UNCHANGED storage_vars

\* add_universal_post after the query: the update of the row found, or the insert, the
\* duplicate check and the commit
add_universal_post_write(t) ==
    /\ writers[t].pc = "queried"
    /\ \E post_data \in {writers[t].post_data[1]} :
           IF writers[t].existing # 0
           THEN /\ posts' = [i \in 1..Len(posts) |->
                       IF posts[i].id = writers[t].existing
                       THEN [f \in DOMAIN posts[i] |->
                                IF f \in DOMAIN post_data THEN post_data[f]
                                ELSE IF f = "updated_at" THEN now
                                ELSE posts[i][f]]
                       ELSE posts[i]]
                /\ UNCHANGED <<groups, similar_posts>>
           ELSE /\ Len(posts) < MaxPosts
                /\ _check_and_link_duplicates(UniversalPost(post_data))
    /\ writers' = [writers EXCEPT ![t] = NoWriter]
    /\ UNCHANGED <<dialect, comments, signals, now, sim_call, detect_runs>>
    /\ UNCHANGED <<topics, used_topics, selection, used_query, llm_calls, workflow,
                   generated_content, parser_status, orchestrator, parse_threads, growth_call, job_vars>>

InitWriters == InitPosts /\ dialect = "sqlite"

NextWriters == \E t \in Threads : add_universal_post_query(t) \/ add_universal_post_write(t)

SpecWriters == InitWriters /\ [][NextWriters]_vars
-----------------------------------------------------------------------------
(* A direct call of _calculate_growth_rate                                 *)

MaxMentions == 4

\* timestamps inside the lookback window: two in its first half, two in its second
WindowTimestamps == {now - 6 * Day, now - 5 * Day, now - 2 * Day, now - Day}

\* a mention as the detection passes build it; only the timestamp is read here
Mention(timestamp) == [timestamp |-> timestamp]

\* _calculate_growth_rate(mentions, lookback_days) is called on mentions of the window
CalculateGrowthRate ==
    /\ \E n \in 0..MaxMentions :
       \E stamps \in [1..n -> WindowTimestamps] :
       \E mentions \in {[i \in 1..n |-> Mention(stamps[i])]} :
           growth_call' = <<[mentions |-> mentions, lookback_days |-> LookbackDays,
                             result |-> _calculate_growth_rate(mentions, LookbackDays)]>>
    /\ UNCHANGED <<topics, used_topics, selection, used_query, now, llm_calls, workflow,
                   generated_content, parsing_vars, job_vars>>
    /\ UNCHANGED storage_vars

InitGrowth == InitPosts /\ dialect = "sqlite"

NextGrowth == CalculateGrowthRate

SpecGrowth == InitGrowth /\ [][NextGrowth]_vars
-----------------------------------------------------------------------------
(* generate_and_post step by step, one run per calling thread: the daily   *)
(* job of the BackgroundScheduler and the /api/auto-generate requests      *)

\* what a generate_and_post run does not touch
run_frame == <<topics, selection, used_query, now, llm_calls, workflow, parsing_vars,
               growth_call, poster, parser_runs, scheduler, storage_vars>>

\* the steps of the workflow, in the order of the docstring
WorkflowSteps ==
    <<"select_topic", "get_posts", "generate_content", "save_content", "mark_topic_used",
      "generate_reel", "post_to_telegram", "mark_content_published">>

\* what the LLM service answers to a run: an error, prose, a post
RunResponses ==
    {[error |-> TRUE, content |-> <<>>], [error |-> FALSE, content |-> TextProse],
     [error |-> FALSE, content |-> TextPost]}

\* select_next_topic(exclude_days, prefer_trending, min_posts) to its return: None is <<>>
RECURSIVE select_next_topic_result(_, _, _)
select_next_topic_result(exclude_days, prefer_trending, min_posts) ==
    LET available_topics == _get_available_topics(min_posts)
        unused_topics == SelectSeq(available_topics, LAMBDA t :
                             ~is_topic_used_recently(t.keywords, exclude_days,
                                                     DefaultSimilarityThreshold))
        trending_topics == SelectSeq(unused_topics, LAMBDA t : t.is_trending)
    IN  IF available_topics = <<>> THEN <<>>
        ELSE IF unused_topics = <<>>
        THEN IF exclude_days > RetryDays
             THEN select_next_topic_result(exclude_days \div 2, prefer_trending, min_posts)
             ELSE <<available_topics[1]>>
        ELSE IF prefer_trending /\ trending_topics # <<>> THEN <<trending_topics[1]>>
        ELSE <<max_post_count(unused_topics)>>

\* _select_topic()
_select_topic ==
    select_next_topic_result(WorkflowConfig.topic_exclude_days,
                             WorkflowConfig.topic_prefer_trending,
                             WorkflowConfig.topic_min_posts)

\* the runs that have started and not returned
RunsInProgress == {r \in Threads : runs[r].pc # "idle"}

\* generate_and_post is called: the result dict is initialised
call_generate_and_post(r) ==
    /\ runs[r].pc = "idle"
    /\ Len(generated_content) + Cardinality(RunsInProgress) < MaxContents
    /\ runs' = [runs EXCEPT ![r] = [NoRun EXCEPT !.pc = "select_topic"]]
    /\ UNCHANGED <<generated_content, used_topics>>
    /\ UNCHANGED run_frame

\* step 1: topic = self._select_topic()
step_select_topic(r) ==
    /\ runs[r].pc = "select_topic"
    /\ \E topic \in {_select_topic} :
          runs' = [runs EXCEPT ![r] =
              IF topic = <<>>
              THEN [@ EXCEPT !.pc = "done", !.steps = Append(@, "select_topic"),
                             !.result.error = "No suitable topic found"]
              ELSE [@ EXCEPT !.pc = "get_posts", !.steps = Append(@, "select_topic"),
                             !.topic = topic, !.result.topic = topic]]
    /\ UNCHANGED <<generated_content, used_topics>>
    /\ UNCHANGED run_frame

\* step 2: posts = self._get_posts_for_topic(topic)
step_get_posts(r) ==
    /\ runs[r].pc = "get_posts"
    /\ \E post_ids \in {_get_posts_for_topic(runs[r].topic[1])} :
          runs' = [runs EXCEPT ![r] =
              IF post_ids = <<>>
              THEN [@ EXCEPT !.pc = "done", !.steps = Append(@, "get_posts"),
                             !.result.error = "No posts found for topic"]
              ELSE [@ EXCEPT !.pc = "generate_content", !.steps = Append(@, "get_posts"),
                             !.post_ids = post_ids]]
    /\ UNCHANGED <<generated_content, used_topics>>
    /\ UNCHANGED run_frame

\* step 3: content = self._generate_content(posts)
step_generate_content(r) ==
    /\ runs[r].pc = "generate_content"
    /\ \E response \in RunResponses :
       \E content \in {_generate_content(runs[r].post_ids, response)} :
          runs' = [runs EXCEPT ![r] =
              IF content = <<>>
              THEN [@ EXCEPT !.pc = "done", !.steps = Append(@, "generate_content"),
                             !.result.error = "Content generation failed"]
              ELSE [@ EXCEPT !.pc = "save_content", !.steps = Append(@, "generate_content"),
                             !.content = content]]
    /\ UNCHANGED <<generated_content, used_topics>>
    /\ UNCHANGED run_frame

\* the row _save_content asks save_generated_content to store
content_row(run) ==
    GeneratedContent([format |-> WorkflowConfig.content_format,
                      title |-> run.content[1].title,
                      content |-> run.content[1].content,
                      source_description |-> Take(run.topic[1].keywords, 3),
                      source_posts |-> run.topic[1].posts])

\* a step 4 that goes on when save_generated_content returned 0
step_save_content_NoCheck(r) ==
    /\ runs[r].pc = "save_content"
    /\ \E save_ok \in BOOLEAN :
       \E row \in {content_row(runs[r])} :
          /\ generated_content' = IF save_ok THEN Append(generated_content, row)
                                  ELSE generated_content
          /\ runs' = [runs EXCEPT ![r] =
                 [@ EXCEPT !.pc = "mark_topic_used", !.steps = Append(@, "save_content"),
                           !.content_id = IF save_ok THEN row.id ELSE 0,
                           !.result.content_id = IF save_ok THEN row.id ELSE 0]]
    /\ UNCHANGED used_topics
    /\ UNCHANGED run_frame

\* step 4: content_id = self._save_content(content, topic); the session commits the
\* row, or rolls back and save_generated_content returns 0
step_save_content(r) ==
    /\ runs[r].pc = "save_content"
    /\ \E save_ok \in BOOLEAN :
       \E row \in {content_row(runs[r])} :
          /\ generated_content' = IF save_ok THEN Append(generated_content, row)
                                  ELSE generated_content
          /\ runs' = [runs EXCEPT ![r] =
                 IF save_ok
                 THEN [@ EXCEPT !.pc = "mark_topic_used", !.steps = Append(@, "save_content"),
                                !.content_id = row.id, !.result.content_id = row.id]
                 ELSE [@ EXCEPT !.pc = "done", !.steps = Append(@, "save_content"),
                                !.result.error = "Failed to save content to database"]]
    /\ UNCHANGED used_topics
    /\ UNCHANGED run_frame

\* step 5: self.topic_selector.mark_topic_used(topic, content_id); the value it
\* returns is dropped
step_mark_topic_used(r) ==
    /\ runs[r].pc = "mark_topic_used"
    /\ \E mark_ok \in BOOLEAN :
          used_topics' =
              IF mark_ok
              THEN Append(used_topics,
                          UsedTopic(runs[r].topic[1].keywords, runs[r].content_id,
                                    runs[r].topic[1].topic_id, runs[r].topic[1].post_count,
                                    "topic"))
              ELSE used_topics
    /\ runs' = [runs EXCEPT ![r].pc = "generate_reel",
                            ![r].steps = Append(@, "mark_topic_used")]
    /\ UNCHANGED generated_content
    /\ UNCHANGED run_frame

\* step 6: the reel image, when enabled; a failure leaves image_path None
step_generate_reel(r) ==
    /\ runs[r].pc = "generate_reel"
    /\ \E reel_ok \in BOOLEAN :
          runs' = [runs EXCEPT ![r] =
              IF ~WorkflowConfig.enable_reel
              THEN [@ EXCEPT !.pc = "post_to_telegram"]
              ELSE [@ EXCEPT !.pc = "post_to_telegram",
                             !.steps = Append(@, "generate_reel"),
                             !.result.image_path = IF reel_ok THEN "reel.png" ELSE "None"]]
    /\ UNCHANGED <<generated_content, used_topics>>
    /\ UNCHANGED run_frame

\* step 7: post_result = await self._post_to_telegram(content, image_path)
step_post_to_telegram(r) ==
    /\ runs[r].pc = "post_to_telegram"
    /\ \E post_ok \in BOOLEAN :
          runs' = [runs EXCEPT ![r] =
              IF ~WorkflowConfig.enable_telegram
              THEN [@ EXCEPT !.pc = "done", !.result.success = TRUE]
              ELSE IF post_ok
              THEN [@ EXCEPT !.pc = "mark_content_published",
                             !.steps = Append(@, "post_to_telegram"),
                             !.posted = TRUE, !.result.message_id = 1]
              ELSE [@ EXCEPT !.pc = "done", !.steps = Append(@, "post_to_telegram"),
                             !.result.error = "Telegram posting failed",
                             !.result.success = TRUE]]
    /\ UNCHANGED <<generated_content, used_topics>>
    /\ UNCHANGED run_frame

\* step 8: self.db.mark_content_published(content_id, 'telegram'), then success
step_mark_published(r) ==
    /\ runs[r].pc = "mark_content_published"
    /\ \E publish_ok \in BOOLEAN :
          generated_content' =
              IF publish_ok
              THEN mark_content_published(generated_content, runs[r].content_id, "telegram")
              ELSE generated_content
    /\ runs' = [runs EXCEPT ![r].pc = "done",
                            ![r].steps = Append(@, "mark_content_published"),
                            ![r].result.success = TRUE]
    /\ UNCHANGED used_topics
    /\ UNCHANGED run_frame

\* return result: the thread can call generate_and_post again
return_result(r) ==
    /\ runs[r].pc = "done"
    /\ runs' = [runs EXCEPT ![r] = NoRun]
    /\ UNCHANGED <<generated_content, used_topics>>
    /\ UNCHANGED run_frame

\* a parser stores a post that mentions "ai" before any run
StoreRunPost ==
    /\ RunsInProgress = {}
    /\ StoreTopicPost

\* ten days pass between two runs
PassDaysBetweenRuns ==
    /\ RunsInProgress = {}
    /\ PassDays

InitRuns == InitTopics

\* the runs of one thread: one after another
NextRuns ==
    \/ call_generate_and_post(1)
    \/ step_select_topic(1)
    \/ step_get_posts(1)
    \/ step_generate_content(1)
    \/ step_save_content(1)
    \/ step_mark_topic_used(1)
    \/ step_generate_reel(1)
    \/ step_post_to_telegram(1)
    \/ step_mark_published(1)
    \/ return_result(1)
    \/ StoreRunPost
    \/ PassDaysBetweenRuns

SpecRuns == InitRuns /\ [][NextRuns]_vars

\* the runs of two threads, overlapping in time
NextOverlappingRuns ==
    \/ \E r \in Threads :
        \/ call_generate_and_post(r)
        \/ step_select_topic(r)
        \/ step_get_posts(r)
        \/ step_generate_content(r)
        \/ step_save_content(r)
        \/ step_mark_topic_used(r)
        \/ step_generate_reel(r)
        \/ step_post_to_telegram(r)
        \/ step_mark_published(r)
        \/ return_result(r)
    \/ StoreRunPost

SpecOverlappingRuns == InitRuns /\ [][NextOverlappingRuns]_vars
-----------------------------------------------------------------------------
(* TelegramPoster.post_content for a single message, one send at a time    *)

\* what the poster does not touch
poster_frame == <<topics, used_topics, selection, used_query, now, llm_calls, workflow,
                  generated_content, parsing_vars, growth_call, runs, parser_runs, scheduler,
                  storage_vars>>

\* max_retries of the constructor: its default
DefaultMaxRetries == 3

\* the values of max_retries the poster is built with
MaxRetriesInputs == 0..DefaultMaxRetries

\* what one send does: it returns the message, or raises RetryAfter, NetworkError (or
\* a subclass of it), another TelegramError, or OSError when the media file cannot be
\* opened
SendOutcomes == {"ok", "RetryAfter", "NetworkError", "TelegramError", "OSError"}

\* the except clauses of the loop: the exception is caught and the loop goes on
retried_AnyTelegramError(exception, attempt, max_retries) ==
    exception \in {"RetryAfter", "NetworkError", "TelegramError"}

\* the except clauses of the loop: the exception is caught and the loop goes on
retried(exception, attempt, max_retries) ==
    \/ exception = "RetryAfter"
    \/ exception = "NetworkError" /\ attempt < max_retries - 1

\* the result dict of a post that succeeded, and of one that failed
PostResult(success, message_id, error) ==
    [success |-> success, message_id |-> message_id, error |-> error]

\* post_content(content, media_path) is called for a long_post or a reel
post_content(max_retries, media_path) ==
    /\ poster.pc = "idle"
    /\ poster' = [NoPoster EXCEPT !.pc = "loop", !.max_retries = max_retries,
                                  !.media_path = media_path]
    /\ UNCHANGED poster_frame

\* _post_single_message: one pass of the loop, for attempt in range(self.max_retries)
send_attempt ==
    /\ poster.pc = "loop"
    /\ poster.attempt < poster.max_retries
    /\ \E outcome \in SendOutcomes :
          /\ outcome = "OSError" => poster.media_path
          /\ poster' =
               IF outcome = "ok"
               THEN [poster EXCEPT !.pc = "returned", !.sends = Append(@, outcome),
                                   !.outcome = <<Returns(PostResult(TRUE, 1, "None"))>>]
               ELSE IF retried(outcome, poster.attempt, poster.max_retries)
               THEN [poster EXCEPT !.attempt = @ + 1, !.sends = Append(@, outcome)]
               ELSE [poster EXCEPT !.pc = "raised", !.sends = Append(@, outcome),
                                   !.raised = outcome]
    /\ UNCHANGED poster_frame

\* _post_single_message after the loop: raise Exception("Failed to post after ...")
retries_exhausted ==
    /\ poster.pc = "loop"
    /\ poster.attempt >= poster.max_retries
    /\ poster' = [poster EXCEPT !.pc = "raised", !.raised = "Exception"]
    /\ UNCHANGED poster_frame

\* post_content returns what _post_single_message returned, or the failure dict of
\* its except clause
post_content_return ==
    /\ poster.pc \in {"returned", "raised"}
    /\ poster' = [poster EXCEPT !.pc = "done",
                     !.outcome = IF poster.pc = "raised"
                                 THEN <<Returns(PostResult(FALSE, 0, poster.raised))>>
                                 ELSE poster.outcome]
    /\ UNCHANGED poster_frame

\* the caller has the result; the poster can be called again
next_post ==
    /\ poster.pc = "done"
    /\ poster' = NoPoster
    /\ UNCHANGED poster_frame

PostContent == \E max_retries \in MaxRetriesInputs, media_path \in BOOLEAN :
                   post_content(max_retries, media_path)

InitPoster == InitPosts /\ dialect = "sqlite"

NextPoster ==
    PostContent \/ send_attempt \/ retries_exhausted \/ post_content_return \/ next_post

SpecPoster == InitPoster /\ [][NextPoster]_vars

\* the event loop runs the coroutine to its end
SpecPosterFair ==
    SpecPoster /\ WF_vars(send_attempt) /\ WF_vars(retries_exhausted)
               /\ WF_vars(post_content_return)
-----------------------------------------------------------------------------
(* The cleanup of the store: POST /api/cleanup-old-posts                   *)

\* days_old as the endpoint passes it
CleanupDays == 60

\* a cleanup that also deletes the rows created at the cutoff
cleanup_old_posts_AtCutoff(days_old) ==
    /\ \E cutoff_date \in {now - days_old * Day} :
          /\ posts' = SelectSeq(posts, LAMBDA post : ~(post.created_at <= cutoff_date))
          /\ comments' = SelectSeq(comments, LAMBDA comment :
                                       ~(comment.created_at <= cutoff_date))
    /\ UNCHANGED <<groups, similar_posts, dialect, signals, now, sim_call, detect_runs>>
    /\ UNCHANGED automation_vars

\* cleanup_old_posts(days_old): the rows created before the cutoff are deleted from
\* universal_posts and universal_comments
cleanup_old_posts(days_old) ==
    /\ \E cutoff_date \in {now - days_old * Day} :
          /\ posts' = SelectSeq(posts, LAMBDA post : ~(post.created_at < cutoff_date))
          /\ comments' = SelectSeq(comments, LAMBDA comment :
                                       ~(comment.created_at < cutoff_date))
    /\ UNCHANGED <<groups, similar_posts, dialect, signals, now, sim_call, detect_runs>>
    /\ UNCHANGED automation_vars

\* the endpoint is called
CleanupOldPosts == cleanup_old_posts(CleanupDays)

\* a parser stores one of two posts that were published before the model's first instant
AddOldPost ==
    \E post_data \in {p \in TopicPostInputs : p.source_id \in {"111", "211"}} :
        add_universal_post(post_data)

\* a parser stores a post that was published just now
AddRecentPost ==
    add_universal_post(PostData("reddit", "204", TitleHiring, ContentWho, now, 1))

\* thirty days pass
PassMonth ==
    /\ now < 40 * Hour + MaxTicks * 30 * Day
    /\ now' = now + 30 * Day
    /\ UNCHANGED automation_vars
    /\ UNCHANGED storage_vars

InitCleanup == InitPosts /\ dialect = "sqlite"

NextCleanup ==
    AddOldPost \/ AddUniversalComment \/ AddRecentPost \/ PassMonth \/ CleanupOldPosts

SpecCleanup == InitCleanup /\ [][NextCleanup]_vars
-----------------------------------------------------------------------------
(* utils/scheduler.py: the AutoScheduler, its config and its interval jobs  *)

\* what the scheduler does not touch
scheduler_frame == <<topics, used_topics, selection, used_query, now, llm_calls, workflow,
                     generated_content, parsing_vars, growth_call, runs, poster,
                     parser_runs, storage_vars>>

\* PARSING_SCHEDULES of the registered sources, with the sections their parsers have
PARSING_SCHEDULES ==
    [reddit |-> [enabled_by_default |-> FALSE, sections |-> <<"startups", "SaaS">>],
     techcrunch |-> [enabled_by_default |-> FALSE, sections |-> <<"main">>]]

\* get_source_schedule: PARSING_SCHEDULES.get(source_name, {})
get_source_schedule(source_name) ==
    IF source_name \in DOMAIN PARSING_SCHEDULES THEN PARSING_SCHEDULES[source_name]
    ELSE <<>>

\* the source names of a request: the registered ones and two without a parser
SchedulerSourceNames == Range(RegisteredSources) \cup {"medium", "twitter"}

\* data/scheduler_config.json: absent (the default), or what an earlier process saved
ConfigFiles ==
    {DefaultConfig,
     [auto_parse_enabled |-> TRUE, sources |-> [reddit |-> [enabled |-> TRUE]]],
     [auto_parse_enabled |-> FALSE, sources |-> [techcrunch |-> [enabled |-> TRUE]]]}

\* the source_states of enable_all: None (as <<>>) or {source_name: enabled}
SourceStatesInputs ==
    {<<>>,
     [reddit |-> TRUE],
     [reddit |-> TRUE, techcrunch |-> TRUE],
     [reddit |-> FALSE, techcrunch |-> TRUE],
     [techcrunch |-> FALSE, twitter |-> TRUE]}

\* config['sources'].get(source_name, {}).get('enabled', False)
source_enabled(config, source_name) ==
    /\ source_name \in DOMAIN config.sources
    /\ "enabled" \in DOMAIN config.sources[source_name]
    /\ config.sources[source_name].enabled

\* config['sources'][source_name]['enabled'] = enabled, the entry created when missing
set_enabled(sources, source_name, enabled) ==
    [s \in DOMAIN sources \cup {source_name} |->
        IF s = source_name THEN [enabled |-> enabled] ELSE sources[s]]

\* _add_interval_jobs: one job for each section of the schedule
_add_interval_jobs(source_name, schedule) ==
    {[id |-> "auto_parse_" \o source_name \o "_" \o schedule.sections[i],
      name |-> source_name \o "/" \o schedule.sections[i]] :
        i \in 1..Len(schedule.sections)}

\* _add_cron_job: one job for the source
_add_cron_job(source_name, schedule) ==
    {[id |-> "auto_parse_" \o source_name, name |-> source_name]}

\* the jobs _apply_config adds for one registered source
source_jobs(config, source_name) ==
    IF ~source_enabled(config, source_name) THEN {}
    ELSE IF get_source_schedule(source_name) = <<>> THEN {}
    ELSE IF "cron" \in DOMAIN get_source_schedule(source_name)
         THEN _add_cron_job(source_name, get_source_schedule(source_name))
         ELSE _add_interval_jobs(source_name, get_source_schedule(source_name))

\* _apply_config without remove_all_jobs: the old jobs stay
_apply_config_KeepJobs(sched, config) ==
    IF ~config.auto_parse_enabled \/ ~sched.orchestrator THEN sched.jobs
    ELSE sched.jobs \cup
         UNION {source_jobs(config, RegisteredSources[i]) : i \in 1..Len(RegisteredSources)}

\* _apply_config: the jobs of the BackgroundScheduler after it
_apply_config(sched, config) ==
    IF ~config.auto_parse_enabled THEN {}
    ELSE IF ~sched.orchestrator THEN {}
    ELSE UNION {source_jobs(config, RegisteredSources[i]) : i \in 1..Len(RegisteredSources)}

\* the enabled state enable_all gives to a source
enable_all_state(source_states, source_name) ==
    IF source_name \in DOMAIN source_states THEN source_states[source_name]
    ELSE get_source_schedule(source_name).enabled_by_default

\* the sources of the config after the loop of enable_all
RECURSIVE enable_all_sources(_, _, _)
enable_all_sources(sources, source_states, i) ==
    IF i > Len(RegisteredSources) THEN sources
    ELSE IF get_source_schedule(RegisteredSources[i]) = <<>>
         THEN enable_all_sources(sources, source_states, i + 1)
    ELSE enable_all_sources(set_enabled(sources, RegisteredSources[i],
                                        enable_all_state(source_states, RegisteredSources[i])),
                            source_states, i + 1)

\* get_scheduler(): AutoScheduler() loads the config file
get_scheduler ==
    /\ scheduler.pc = "none"
    /\ \E file \in ConfigFiles :
          scheduler' = [scheduler EXCEPT !.pc = "constructed", !.config = file]
    /\ UNCHANGED scheduler_frame

\* app_v2: scheduler.set_orchestrator(orchestrator), at import
set_orchestrator ==
    /\ scheduler.pc = "constructed"
    /\ ~scheduler.orchestrator
    /\ scheduler' = [scheduler EXCEPT !.orchestrator = TRUE]
    /\ UNCHANGED scheduler_frame

\* app_v2, __main__: scheduler.start()
start ==
    /\ scheduler.orchestrator
    /\ ~scheduler.running
    /\ scheduler' = [scheduler EXCEPT !.running = TRUE,
                                      !.jobs = _apply_config(scheduler, scheduler.config)]
    /\ UNCHANGED scheduler_frame

\* POST /api/scheduler/enable
enable_all ==
    /\ scheduler.running
    /\ \E source_states \in SourceStatesInputs :
       \E config \in {[auto_parse_enabled |-> TRUE,
                       sources |-> IF scheduler.orchestrator
                                   THEN enable_all_sources(scheduler.config.sources,
                                                           source_states, 1)
                                   ELSE scheduler.config.sources]} :
          scheduler' = [scheduler EXCEPT !.config = config,
                                         !.jobs = _apply_config(scheduler, config)]
    /\ UNCHANGED scheduler_frame

\* POST /api/scheduler/disable
disable_all ==
    /\ scheduler.running
    /\ \E config \in {[scheduler.config EXCEPT !.auto_parse_enabled = FALSE]} :
          scheduler' = [scheduler EXCEPT !.config = config,
                                         !.jobs = _apply_config(scheduler, config)]
    /\ UNCHANGED scheduler_frame

\* POST /api/scheduler/source/<source_name>/enable
enable_source ==
    /\ scheduler.running
    /\ \E source_name \in SchedulerSourceNames :
       \E config \in {[scheduler.config EXCEPT
                          !.sources = set_enabled(@, source_name, TRUE)]} :
          scheduler' = [scheduler EXCEPT
                           !.config = config,
                           !.jobs = IF config.auto_parse_enabled
                                    THEN _apply_config(scheduler, config) ELSE @]
    /\ UNCHANGED scheduler_frame

\* POST /api/scheduler/source/<source_name>/disable
disable_source ==
    /\ scheduler.running
    /\ \E source_name \in SchedulerSourceNames :
       \E config \in {[scheduler.config EXCEPT
                          !.sources = set_enabled(@, source_name, FALSE)]} :
          scheduler' = [scheduler EXCEPT !.config = config,
                                         !.jobs = _apply_config(scheduler, config)]
    /\ UNCHANGED scheduler_frame

InitScheduler == InitPosts /\ dialect = "sqlite"

NextScheduler ==
    get_scheduler \/ set_orchestrator \/ start \/ enable_all \/ disable_all
        \/ enable_source \/ disable_source

SpecScheduler == InitScheduler /\ [][NextScheduler]_vars


-----------------------------------------------------------------------------
(* Claims about the post store *)

PostIndex == 1..Len(posts)

SamePair(p, q) == p.source = q.source /\ p.source_id = q.source_id

UniquePairs(rows) ==
    \A i, j \in 1..Len(rows) : SamePair(rows[i], rows[j]) => i = j

\* a call with a stored (source, source_id) leaves the number of rows alone and
\* overwrites post_data's fields in the one row of that pair
UpdatedInPlace(post_data) ==
    /\ Len(posts') = Len(posts)
    /\ \A i \in PostIndex :
          IF SamePair(posts[i], post_data)
          THEN /\ \A f \in DOMAIN post_data : posts'[i][f] = post_data[f]
               /\ posts'[i].id = posts[i].id
               /\ posts'[i].duplicate_group_id = posts[i].duplicate_group_id
          ELSE posts'[i] = posts[i]

\* C1: after any sequence of add_universal_post calls there is at most one row
\* per (source, source_id); a call for a stored pair overwrites that row's fields
\* and adds no row.
C1_UpdateInPlace ==
    [][\A post_data \in PostInputs :
          add_universal_post(post_data) =>
              /\ UniquePairs(posts')
              /\ (\E i \in PostIndex : SamePair(posts[i], post_data))
                     => UpdatedInPlace(post_data)]_vars

\* hacker_news 101 was stored with its text, linked to a group, and then stored
\* again without the text: the row carries the new fields and the old group
C1_Witness ==
    \E i \in PostIndex :
        /\ posts[i].source = "hacker_news" /\ posts[i].source_id = "101"
        /\ posts[i].score = 12 /\ posts[i].content = <<>>
        /\ posts[i].duplicate_group_id # 0

\* the candidates of new_post among the old rows, when the title pattern is the
\* first prefix_len characters of the new title
CandidateIds(new_post, prefix_len) ==
    {posts[i].id : i \in {j \in PostIndex :
        /\ posts[j].source # new_post.source
        /\ \/ posts[j].content_hash = new_post.content_hash
           \/ like(posts[j].title, Take(new_post.title, prefix_len), dialect)}}

\* the outcome of an insertion that scanned the candidates in the order scan
\* and found those at the positions hits above 0.7
LinkedTo(new_post, scan, hits) ==
    LET others(S) == \A i \in PostIndex : posts[i].id \notin S => posts'[i] = posts[i]
    IN  IF hits = {}
        THEN /\ groups' = groups
             /\ new_post.duplicate_group_id = 0
             /\ others({})
        ELSE \A first \in {PostById(posts, scan[SetMin(hits)])} :
                IF first.duplicate_group_id # 0
                THEN /\ groups' = groups
                     /\ new_post.duplicate_group_id = first.duplicate_group_id
                     /\ others({})
                ELSE /\ Len(groups') = Len(groups) + 1
                     /\ SubSeq(groups', 1, Len(groups)) = groups
                     /\ groups'[Len(groups')].canonical_title = new_post.title
                     /\ new_post.duplicate_group_id = groups'[Len(groups')].id
                     /\ PostById(posts', first.id) =
                            [first EXCEPT !.duplicate_group_id = groups'[Len(groups')].id]
                     /\ \A g \in 1..Len(groups) : groups[g].id # groups'[Len(groups')].id
                     /\ others({first.id})

\* An insertion links the new row to the first candidate, in the order iterated,
\* whose similarity is above 0.7, and touches nothing else.
LinkedToFirstMatch(prefix_len) ==
    Len(posts') = Len(posts) + 1 =>
        \A new_post \in {posts'[Len(posts')]} :
        \A cands \in {CandidateIds(new_post, prefix_len)} :
        \A scan \in {SelectSeq(similar_posts', LAMBDA id : id \in cands)} :
            /\ Range(similar_posts') \subseteq {posts[i].id : i \in PostIndex}
            /\ cands \subseteq Range(similar_posts')
            /\ LinkedTo(new_post, scan,
                        {k \in 1..Len(scan) :
                            FracGT(similarity(new_post, PostById(posts, scan[k])), <<7, 10>>)})

\* C2 (as amended): a post stored for the first time is linked to the first
\* candidate in iteration order whose similarity is > 0.7, where a candidate is
\* a post of another source with the same content hash or a title matching
\* LIKE '%' + the first 50 characters of the new title + '%'; it takes the
\* candidate's group, or a new group with canonical_title = the new title is
\* created for both; without such a candidate no group is created or changed.
C2_FirstMatchLinked == [][LinkedToFirstMatch(TitlePrefixLen)]_vars

\* the title column holds at most 500 characters: a prefix of that length is
\* the whole title
TitleColumnLen == 500

\* C2 (as stated): the same, with candidates whose title contains the whole
\* new title.
C2_WholeTitleCandidates == [][LinkedToFirstMatch(TitleColumnLen)]_vars

\* three posts share one group: the group was created for two of them and the
\* third joined it
C2_Witness ==
    \E i, j, k \in PostIndex :
        /\ i < j /\ j < k
        /\ posts[i].duplicate_group_id # 0
        /\ posts[j].duplicate_group_id = posts[i].duplicate_group_id
        /\ posts[k].duplicate_group_id = posts[i].duplicate_group_id

\* C3: two stored posts of different sources whose similarity exceeds 0.7 are in
\* the same DuplicateGroup, whichever was stored first.
C3_SimilarPostsGrouped ==
    Len(posts) = 2 /\ posts[1].source # posts[2].source
    /\ FracGT(similarity(posts[1], posts[2]), <<7, 10>>)
    /\ FracGT(similarity(posts[2], posts[1]), <<7, 10>>)
    => /\ posts[1].duplicate_group_id # 0
       /\ posts[1].duplicate_group_id = posts[2].duplicate_group_id

\* C4: the similarity of a post with itself is 1.0, with or without content.
C4_SelfSimilarityIsOne ==
    sim_call.result # <<>> /\ sim_call.post1 = sim_call.post2
        => sim_call.result = <<1, 1>>


-----------------------------------------------------------------------------
(* Claims about the signal store *)

SignalIndex == 1..Len(signals)

\* C5: every stored signal has 0 <= importance_score <= 100, whatever the
\* magnitudes of frequency, growth rate, number of sources and confidence, after
\* add_enhanced_signal and after a merge rescored the primary signal.
C5_ImportanceInRange ==
    \A i \in SignalIndex :
        /\ FracLE(<<0, 1>>, signals[i].importance_score)
        /\ FracLE(signals[i].importance_score, <<100, 1>>)

\* a primary signal of frequency above 1000 was rescored by a merge, and a
\* signal of growth rate 1000 and confidence 150 is stored
C5_Witness ==
    /\ \E i \in SignalIndex : /\ signals[i].frequency > 1000
                              /\ signals[i].related_signal_ids # <<>>
    /\ \E i \in SignalIndex : /\ signals[i].growth_rate = <<1000, 1>>
                              /\ signals[i].confidence_score = <<150, 1>>

\* min(frequency*2, 40) + growth points + source points + confidence*0.1, at most 100
ImportanceOf(signal, growth_points, source_points) ==
    FracMin(<<100, 1>>,
        FracAdd(FracAdd(<<Min(signal.frequency * 2, 40), 1>>, growth_points),
                FracAdd(source_points, FracMul(signal.confidence_score, <<1, 10>>))))

\* min(growth_rate*10, 30)
GrowthPoints(signal) == FracMin(FracMul(signal.growth_rate, <<10, 1>>), <<30, 1>>)

\* min(num_sources*10, 20)
SourcePoints(signal) == <<Min(Cardinality(signal.sources) * 10, 20), 1>>

\* C6 (as amended): the importance score is min(100, min(frequency*2, 40) + G +
\* S + confidence*0.1), where G is min(growth_rate*10, 30) when growth_rate > 0
\* and 0 otherwise, and S is min(num_sources*10, 20) when the signal has more
\* than one source (is_cross_source) and 0 otherwise.
C6_ImportanceFormula ==
    \A i \in SignalIndex :
        signals[i].importance_score =
            ImportanceOf(signals[i],
                IF FracGT(signals[i].growth_rate, <<0, 1>>)
                THEN GrowthPoints(signals[i]) ELSE <<0, 1>>,
                IF Cardinality(signals[i].sources) > 1
                THEN SourcePoints(signals[i]) ELSE <<0, 1>>)

\* C6 (as stated): the growth term and the source term are counted for every
\* signal, single-source signals and negative growth rates included.
C6_UnconditionalFormula ==
    \A i \in SignalIndex :
        signals[i].importance_score =
            ImportanceOf(signals[i], GrowthPoints(signals[i]), SourcePoints(signals[i]))

\* a single-source signal and a signal of negative growth rate are stored
C6_Witness ==
    /\ \E i \in SignalIndex : Cardinality(signals[i].sources) = 1
    /\ \E i \in SignalIndex : FracGT(<<0, 1>>, signals[i].growth_rate)

PriorityBand(importance_score, frequency) ==
    CASE FracLE(<<80, 1>>, importance_score) /\ frequency >= 10 -> "critical"
      [] ~(FracLE(<<80, 1>>, importance_score) /\ frequency >= 10)
         /\ FracLE(<<60, 1>>, importance_score) /\ frequency >= 5 -> "high"
      [] ~(FracLE(<<80, 1>>, importance_score) /\ frequency >= 10)
         /\ ~(FracLE(<<60, 1>>, importance_score) /\ frequency >= 5)
         /\ FracLE(<<40, 1>>, importance_score) -> "medium"
      [] OTHER -> "low"

\* C7: every stored signal's priority is the band of its current importance
\* score and frequency, after add_enhanced_signal and after every merge.
C7_PriorityIsBand ==
    \A i \in SignalIndex :
        signals[i].priority = PriorityBand(signals[i].importance_score, signals[i].frequency)

\* a merge raised a primary signal to frequency 8 and from low to medium
C7_Witness ==
    \E i \in SignalIndex :
        /\ signals[i].related_signal_ids # <<>>
        /\ signals[i].frequency = 8
        /\ signals[i].priority = "medium"

\* C8: a signal is deactivated only when another active signal of its type has
\* Jaccard keyword similarity of at least 0.7 with it.
C8_MergeOnlySimilar ==
    [][\A i \in SignalIndex :
          signals[i].is_active /\ ~signals'[i].is_active =>
              \E j \in SignalIndex :
                  /\ j # i
                  /\ signals[j].is_active
                  /\ signals[j].signal_type = signals[i].signal_type
                  /\ FracLE(<<7, 10>>, keyword_similarity(signals[i].keywords,
                                                           signals[j].keywords))]_vars

\* a signal was merged away while two active signals of one type that share
\* half of their words or less stay apart
C8_Witness ==
    /\ \E i \in SignalIndex : ~signals[i].is_active
    /\ \E j, k \in SignalIndex :
          /\ j # k
          /\ signals[j].is_active /\ signals[k].is_active
          /\ signals[j].signal_type = signals[k].signal_type
          /\ FracGT(keyword_similarity(signals[j].keywords, signals[k].keywords), <<0, 1>>)
          /\ FracLE(keyword_similarity(signals[j].keywords, signals[k].keywords), <<1, 2>>)

RECURSIVE FrequencyOver(_, _)
FrequencyOver(table, S) ==
    IF S = {} THEN 0
    ELSE LET i == CHOOSE x \in S : TRUE
         IN  table[i].frequency + FrequencyOver(table, S \ {i})

ActiveOfType(table, type) ==
    {i \in 1..Len(table) : table[i].is_active /\ table[i].signal_type = type}

\* the rows a step merged into row primary
MergedInto(primary) ==
    {g \in SignalIndex : signals[g].id \in Range(signals'[primary].related_signal_ids)}

\* C9: a merge gives the primary signal the summed frequency and the united
\* sources of its group and at most 10 context snippets; the other signals of
\* the group stay stored, deactivated; the frequency summed over the active
\* signals of each type is unchanged.
C9_MergeFoldsGroup ==
    [][Len(signals') = Len(signals) =>
          /\ \A p \in SignalIndex :
                signals'[p].related_signal_ids # signals[p].related_signal_ids =>
                    \A group \in {MergedInto(p)} :
                        /\ signals[p].is_active /\ signals'[p].is_active
                        /\ group # {}
                        /\ signals'[p].frequency =
                               signals[p].frequency + FrequencyOver(signals, group)
                        /\ signals'[p].sources =
                               signals[p].sources \cup UNION {signals[g].sources : g \in group}
                        /\ Len(signals'[p].context_snippets) <= 10
                        /\ \A g \in group :
                              /\ signals[g].is_active
                              /\ signals'[g] = [signals[g] EXCEPT !.is_active = FALSE]
          /\ \A i \in SignalIndex : signals'[i].id = signals[i].id
          /\ \A type \in {signals[i].signal_type : i \in SignalIndex} :
                FrequencyOver(signals', ActiveOfType(signals', type)) =
                    FrequencyOver(signals, ActiveOfType(signals, type))]_vars

\* a primary signal absorbed two signals and keeps 10 of their 13 or more snippets
C9_Witness ==
    \E p \in SignalIndex :
        /\ signals[p].is_active
        /\ Len(signals[p].related_signal_ids) = 2
        /\ Len(signals[p].context_snippets) = 10
        /\ \A g \in SignalIndex :
              signals[g].id \in Range(signals[p].related_signal_ids) => ~signals[g].is_active

-----------------------------------------------------------------------------
(* Claims about detection *)

\* pricing problem
TopicPricingProblem == <<"p","r","i","c","i","n","g"," ","p","r","o","b","l","e","m">>

\* the stored posts, min_mentions or more, are all recent and all contain the topic
AllMention(topic, lookback_days, min_mentions) ==
    /\ Len(posts) >= min_mentions
    /\ \A i \in PostIndex :
          /\ i \in recent(posts, lookback_days)
          /\ contains(lower(post_text(posts[i])), topic)

\* the active pain signals of table whose keywords contain the topic
TopicSignals(table, topic) ==
    {i \in 1..Len(table) :
        /\ table[i].is_active
        /\ table[i].signal_type = "pain"
        /\ contains(lower(table[i].keywords), topic)}

\* C10: a detect_all_signals run over a store with no signals, no comments and
\* N >= min_mentions posts that all contain "pricing problem" leaves exactly one
\* active pain signal for the topic, and its frequency is N.
C10_OneSignalPerTopic ==
    [][\A min_mentions \in MinMentionsInputs :
          /\ detect_all_signals(LookbackDays, min_mentions)
          /\ signals = <<>>
          /\ comments = <<>>
          /\ AllMention(TopicPricingProblem, LookbackDays, min_mentions)
          => /\ Cardinality(TopicSignals(signals', TopicPricingProblem)) = 1
             /\ \A i \in TopicSignals(signals', TopicPricingProblem) :
                   signals'[i].frequency = Len(posts)]_vars

-----------------------------------------------------------------------------
(* Claims about topic selection *)

\* the candidate topics of the select_next_topic call in progress
Candidates == Range(_get_available_topics(selection.min_posts))

\* the Jaccard overlap of the lowercased, stripped keyword sets is at least threshold
JaccardAtLeast(keywords1, keywords2, threshold) ==
    \A a \in {normalized(keywords1)} : \A b \in {normalized(keywords2)} :
        Cardinality(a \cap b) * threshold[2] >= threshold[1] * Cardinality(a \cup b)

\* a topic with similar keywords was marked within the last exclude_days days
UsedWithin(keywords, exclude_days, threshold) ==
    \E i \in 1..Len(used_topics) :
        /\ now - used_topics[i].used_at <= exclude_days * Day
        /\ JaccardAtLeast(keywords, used_topics[i].keywords, threshold)

\* the candidates not used within the days the caller asked for
UnusedCandidates ==
    {t \in Candidates :
        ~UsedWithin(t.keywords, selection.requested_days, DefaultSimilarityThreshold)}

-----------------------------------------------------------------------------
(* Claims about the analyzers *)

\* the completion of a call is no JSON document once its code block is removed
MalformedResponse(response) ==
    ~response.error /\ json_loads(strip_code_block(strip(response.content))).raises # ""

\* C14: analyze_post never raises, and on a request error or on a completion that is not
\* JSON it returns the neutral defaults: summary '', category 'discussion', sentiment
\* 'neutral' and empty lists.
C14_AnalyzePostNeverRaises ==
    \A i \in 1..Len(llm_calls) :
        llm_calls[i].function = "analyze_post" =>
            /\ llm_calls[i].outcome.raises = ""
            /\ (llm_calls[i].response.error \/ MalformedResponse(llm_calls[i].response))
                   => llm_calls[i].outcome.value = NeutralAnalysis

\* a request error and a completion in prose have both been answered with the defaults
C14_Witness ==
    /\ \E i \in 1..Len(llm_calls) :
           /\ llm_calls[i].function = "analyze_post"
           /\ llm_calls[i].response.error
           /\ llm_calls[i].outcome = Returns(NeutralAnalysis)
    /\ \E i \in 1..Len(llm_calls) :
           /\ llm_calls[i].function = "analyze_post"
           /\ llm_calls[i].response.content = TextProse
           /\ llm_calls[i].outcome = Returns(NeutralAnalysis)

\* C15: generate_from_cluster, called with posts and a known format, never raises on a
\* request error or on a completion that is not JSON; it returns content instead.
C15_GenerateNeverRaises ==
    \A i \in 1..Len(llm_calls) :
        ( /\ llm_calls[i].function = "generate_from_cluster"
          /\ llm_calls[i].cluster_posts # <<>>
          /\ llm_calls[i].format_type \in FormatTypes
          /\ llm_calls[i].response.error \/ MalformedResponse(llm_calls[i].response) )
        => llm_calls[i].outcome.raises = ""
-----------------------------------------------------------------------------
(* Claims about the automation workflow *)

\* the content row the result dict names is stored and not published
SavedUnpublished ==
    \E i \in 1..Len(generated_content) :
        /\ generated_content[i].id = workflow.result.content_id
        /\ ~generated_content[i].is_published

\* a used-topic record names the content of the result dict
TopicRecorded ==
    \E i \in 1..Len(used_topics) : used_topics[i].content_id = workflow.result.content_id

\* C16 as stated: generate_and_post returns a result dict in which every failing step is
\* reported through success or error, and after a failed Telegram posting the saved content
\* row and the used-topic record are in place and the content is not published.
C16_EveryFailureReported ==
    workflow.pc = "done" =>
        /\ workflow.failed # {} =>
               ~workflow.result.success \/ workflow.result.error # "None"
        /\ "telegram" \in workflow.failed => SavedUnpublished /\ TopicRecorded

\* C16, amended: a failure to select a topic, to fetch its posts, to generate or to save
\* content returns success False with an error; a failed Telegram posting returns its error
\* with success True, the saved row in place and unpublished, and the used-topic record in
\* place when step 5 had written it; a failure of the reel, of marking the topic used or
\* of marking the content published alone leaves success True and error None.
C16_CoreFailuresReported ==
    workflow.pc = "done" =>
        /\ workflow.failed \cap {"select", "posts", "generate", "save"} # {} =>
               /\ ~workflow.result.success
               /\ workflow.result.error # "None"
               /\ workflow.result.content_id = 0
        /\ "telegram" \in workflow.failed =>
               /\ workflow.result.success
               /\ workflow.result.error = "Telegram posting failed"
               /\ SavedUnpublished
               /\ "mark_topic_used" \notin workflow.failed => TopicRecorded
        /\ ( /\ workflow.failed # {}
             /\ workflow.failed \subseteq {"reel", "mark_topic_used", "publish"} ) =>
               workflow.result.success /\ workflow.result.error = "None"

\* the posting failed after the content was saved and the topic marked
C16_Witness ==
    /\ workflow.pc = "done"
    /\ workflow.failed = {"telegram"}
    /\ SavedUnpublished
    /\ TopicRecorded
-----------------------------------------------------------------------------
(* Claims about parsing *)

\* the sources a request asks for: all the registered ones for None
Requested(sources) == IF sources = <<>> THEN RegisteredSources ELSE sources

\* thread t has parsed the section: parse_and_save got as far as fetching its posts,
\* or failed in a write of its own
Parsed(t, source_name, section) ==
    \E i \in 1..Len(parse_threads[t].parsed) :
        /\ parse_threads[t].parsed[i].source = source_name
        /\ parse_threads[t].parsed[i].section = section
        /\ \/ parse_threads[t].parsed[i].fetched
           \/ parse_threads[t].parsed[i].raised = "OperationalError"

\* the error list of the orchestrator has an entry for the section
Recorded(source_name, section) ==
    \E i \in 1..Len(orchestrator.errors) :
        /\ orchestrator.errors[i].source = source_name
        /\ orchestrator.errors[i].section = section

\* every section of every requested source has been parsed once the run is over
AllSectionsParsed ==
    ( /\ parse_threads[1].pc = "finished"
      /\ Range(Requested(parse_threads[1].sources)) \subseteq Range(RegisteredSources) )
    => \A source_name \in Range(Requested(parse_threads[1].sources)) :
           \A section \in Range(get_available_sections(source_name)) :
               Parsed(1, source_name, section)

\* C17: during a parse of several sources a fetch or save failure in one section does not
\* stop the others, every other requested source and section is still parsed, and the
\* failure is recorded in the error list of the orchestrator.
C17_FailuresRecorded ==
    /\ AllSectionsParsed
    /\ \A i \in 1..Len(parse_threads[1].parsed) :
           parse_threads[1].parsed[i].raised # "" =>
               Recorded(parse_threads[1].parsed[i].source, parse_threads[1].parsed[i].section)

\* thread t runs: run_parser was started and has not reached the end of its finally block
InProgress(t) == parse_threads[t].pc \notin {"idle", "rejected", "finished"}

\* C18: the is_running guard is not atomic. A run_parser thread is only started by a
\* request that read parser_status['is_running'] = False, and yet two threads started
\* that way can be in progress at the same time.
C18_StartedOnFalse ==
    \A t \in Threads : InProgress(t) => ~parse_threads[t].read_running

\* two requests read False, and both their threads are parsing
C18_Witness ==
    /\ \A t \in Threads : parse_threads[t].pc = "parsing" /\ ~parse_threads[t].read_running
    /\ parser_status.is_running
-----------------------------------------------------------------------------
(* Claims about concurrent writers and about the growth rate *)

\* C19: the (source, source_id) pair of the stored posts stays unique when two threads call
\* add_universal_post for the same pair: no interleaving of their query and insert steps
\* leaves two rows with one pair.
C19_ConcurrentUniquePairs ==
    \A i, j \in PostIndex : SamePair(posts[i], posts[j]) => i = j

\* the mentions whose timestamp lies in the first and in the second half of the window
\* of lookback_days days that ends now
InFirstHalf(mentions, lookback_days) ==
    {n \in 1..Len(mentions) : 2 * (now - mentions[n].timestamp) > lookback_days * Day}

InSecondHalf(mentions, lookback_days) ==
    {n \in 1..Len(mentions) : 2 * (now - mentions[n].timestamp) <= lookback_days * Day}

\* C20: for mentions inside the lookback window _calculate_growth_rate returns
\* (second - first) / first, first and second being the numbers of mentions with a
\* timestamp in the first and in the second half of the window, and 0 for fewer than two
\* mentions or an empty first half.
C20_WindowHalves ==
    \A n \in 1..Len(growth_call) :
        \E first \in {Cardinality(InFirstHalf(growth_call[n].mentions,
                                              growth_call[n].lookback_days))},
           second \in {Cardinality(InSecondHalf(growth_call[n].mentions,
                                                growth_call[n].lookback_days))} :
            growth_call[n].result =
                IF Len(growth_call[n].mentions) < 2 \/ first = 0 THEN <<0, 1>>
                ELSE Frac(second - first, first)
-----------------------------------------------------------------------------
(* Claims about the runs of the workflow                                    *)

\* the place of a step in the workflow
StepIndex(step) == CHOOSE n \in 1..Len(WorkflowSteps) : WorkflowSteps[n] = step

\* the run of thread r has taken the step
Taken(r, step) == \E n \in 1..Len(runs[r].steps) : runs[r].steps[n] = step

\* C21: in every run of generate_and_post the steps taken follow the order select topic,
\* get posts, generate content, save content, mark topic used, generate reel, post to
\* Telegram, mark published; the topic is marked used only after the content was saved
\* under a non-zero id, and the row is marked published only after the Telegram post
\* returned success
C21_StepsInOrder ==
    \A r \in Threads :
        /\ \A i, j \in 1..Len(runs[r].steps) :
               i < j => StepIndex(runs[r].steps[i]) < StepIndex(runs[r].steps[j])
        /\ Taken(r, "mark_topic_used") =>
               /\ Taken(r, "save_content")
               /\ runs[r].content_id # 0
               /\ \E n \in 1..Len(generated_content) :
                      generated_content[n].id = runs[r].content_id
        /\ Taken(r, "mark_content_published") =>
               /\ Taken(r, "post_to_telegram")
               /\ runs[r].posted
        /\ \A n \in 1..Len(generated_content) :
               (generated_content[n].id = runs[r].content_id
                /\ generated_content[n].is_published) => runs[r].posted

\* a run took all eight steps and its row is published
C21_Witness ==
    /\ runs[1].pc = "done"
    /\ runs[1].steps = WorkflowSteps
    /\ \E n \in 1..Len(generated_content) :
           generated_content[n].id = runs[1].content_id /\ generated_content[n].is_published
    /\ \E n \in 1..Len(used_topics) : used_topics[n].content_id = runs[1].content_id

-----------------------------------------------------------------------------
(* Claims about the Telegram poster                                         *)

\* at most max_retries sends, nothing sent after a success, every send before the last
\* one failed with RetryAfter or NetworkError, and the caller gets a dict, with success
\* False unless the last send succeeded
AttemptsBounded ==
    /\ Len(poster.sends) <= poster.max_retries
    /\ \A n \in 1..Len(poster.sends) - 1 : poster.sends[n] \in {"RetryAfter", "NetworkError"}
    /\ \A n \in 1..Len(poster.sends) :
           (poster.sends[n] \in {"RetryAfter", "NetworkError"} /\ n < poster.max_retries)
               => (n < Len(poster.sends) \/ poster.pc = "loop")
    /\ poster.pc = "done" =>
           /\ poster.outcome[1].raises = ""
           /\ poster.outcome[1].value.success =
                  (poster.sends # <<>> /\ poster.sends[Len(poster.sends)] = "ok")

\* C22: _post_single_message makes at most max_retries send attempts and terminates; it
\* returns success on the first send that succeeds and sends nothing further, retries
\* after RetryAfter and NetworkError and after no other TelegramError, and when the
\* attempts are exhausted the caller of post_content gets a result with success False,
\* not an exception
C22_BoundedRetries == []AttemptsBounded /\ (poster.pc = "loop" ~> poster.pc = "done")

\* every attempt was made and failed with a retryable error, and the caller has the
\* failure dict
C22_Witness ==
    /\ poster.pc = "done"
    /\ poster.max_retries = DefaultMaxRetries
    /\ poster.sends = <<"NetworkError", "RetryAfter", "RetryAfter">>
    /\ ~poster.outcome[1].value.success

-----------------------------------------------------------------------------
(* Claims about successive and overlapping runs                             *)

\* an earlier run saved content for a topic of these keywords within the last days
UsedBySavedRun(keywords, days) ==
    \E n \in 1..Len(generated_content) :
        /\ generated_content[n].source_description = Take(keywords, 3)
        /\ generated_content[n].created_at >= now - days * Day

\* C23: in runs executed one after another, the topic a run selects was not used by an
\* earlier run that saved content within topic_exclude_days, unless every candidate
\* topic was used in that window
C23_NoRepeatAfterSave ==
    \A r \in Threads :
        (/\ runs[r].pc = "get_posts"
         /\ UsedBySavedRun(runs[r].topic[1].keywords, WorkflowConfig.topic_exclude_days))
        => \A n \in 1..Len(_get_available_topics(WorkflowConfig.topic_min_posts)) :
               UsedBySavedRun(_get_available_topics(WorkflowConfig.topic_min_posts)[n].keywords,
                              WorkflowConfig.topic_exclude_days)

\* C30: two overlapping runs never select the same topic: a run does not select the
\* topic another run has selected and not yet marked as used
C30_OverlappingRunsDiffer ==
    \A first, second \in Threads :
        (/\ first # second
         /\ runs[second].pc = "get_posts"
         /\ runs[first].topic # <<>>
         /\ ~Taken(first, "mark_topic_used"))
        => runs[second].topic[1].keywords # runs[first].topic[1].keywords

-----------------------------------------------------------------------------
(* Claims about the storage                                                 *)

\* C24: the posts of one DuplicateGroup all come from different sources
C24_GroupSourcesDiffer ==
    \A i, j \in 1..Len(posts) :
        (/\ i # j
         /\ posts[i].duplicate_group_id # 0
         /\ posts[i].duplicate_group_id = posts[j].duplicate_group_id)
        => posts[i].source # posts[j].source

\* the posts created before the cutoff of a cleanup called now
OldPosts == {i \in 1..Len(posts) : posts[i].created_at < now - CleanupDays * Day}

-----------------------------------------------------------------------------
(* Claims about the parser runs                                             *)

\* C26: every ParserRun that start_parser_run recorded inside parse_and_save is finished
\* once parse_and_save has returned or raised: its status is 'success' or 'failed',
\* never 'running'
C26_RunsFinished ==
    \A n \in 1..Len(parser_runs) : parser_runs[n].status \in {"success", "failed"}

\* thread t is between the first statement of run_parser and its finally block
StillParsing(t) == parse_threads[t].pc \in {"parse_all", "parse_all_set", "parsing"}

\* C27: while a run_parser thread is still parsing or analysing, parser_status['is_running']
\* is True: no run_parser thread resets the flag while another one is in progress
C27_FlagWhileParsing ==
    \A t \in Threads : StillParsing(t) => parser_status.is_running

-----------------------------------------------------------------------------
(* Claims about the AutoScheduler                                           *)

\* the per-section jobs of a source: one for each section of its schedule
PerSectionJobs(source_name) ==
    {[id |-> "auto_parse_" \o source_name \o "_" \o section,
      name |-> source_name \o "/" \o section] :
        section \in Range(get_source_schedule(source_name).sections)}

\* the registered sources whose config entry has enabled = True
EnabledRegistered ==
    {s \in Range(RegisteredSources) :
        /\ s \in DOMAIN scheduler.config.sources
        /\ scheduler.config.sources[s].enabled}

\* C28: on a started AutoScheduler with an orchestrator, the scheduled jobs are exactly
\* the per-section jobs of the registered sources whose config has enabled = True when
\* auto_parse_enabled is True, and there is no job when auto_parse_enabled is False
C28_JobsFollowConfig ==
    (scheduler.running /\ scheduler.orchestrator) =>
        scheduler.jobs = IF scheduler.config.auto_parse_enabled
                         THEN UNION {PerSectionJobs(s) : s \in EnabledRegistered}
                         ELSE {}

\* auto-parsing is on, one registered source is enabled and has its two jobs, the other
\* registered source is disabled, and a source without a parser is enabled
C28_Witness ==
    /\ scheduler.running
    /\ scheduler.config.auto_parse_enabled
    /\ Cardinality(scheduler.jobs) = 2
    /\ "techcrunch" \in DOMAIN scheduler.config.sources
    /\ ~scheduler.config.sources["techcrunch"].enabled
    /\ "twitter" \in DOMAIN scheduler.config.sources
    /\ scheduler.config.sources["twitter"].enabled

-----------------------------------------------------------------------------
(* Claims about repeated detection                                          *)

\* the signals the three passes find over the current posts and comments
FoundSignals(min_mentions) ==
    detect_repeating_pains(LookbackDays, min_mentions)
        \o detect_emerging_language(LookbackDays) \o detect_solution_patterns(LookbackDays)

\* the tables a detect_all_signals run over the current posts and comments leaves in an
\* empty signal store
FirstRunTables(min_mentions) ==
    LET found == FoundSignals(min_mentions)
        table == List([n \in 1..Len(found) |-> [EnhancedSignal(found[n]) EXCEPT !.id = n]])
    IN  {merge_by_type(table, active, [k \in 1..Len(active) |-> table[active[k]].signal_type]) :
            active \in Orders({i \in 1..Len(table) : table[i].is_active})}

\* the active signals of table, each with its frequency
ActiveFrequencies(table) ==
    {<<table[i].signal_type, table[i].keywords, table[i].frequency>> :
        i \in {j \in 1..Len(table) : table[j].is_active}}

\* C29: a second detect_all_signals run over the posts and comments of the first run
\* leaves the same set of active signals with the same frequencies as the first run left
C29_DetectIdempotent ==
    [][\A min_mentions \in MinMentionsInputs :
          /\ detect_all_signals(LookbackDays, min_mentions)
          /\ detect_runs = 1
          /\ signals \in FirstRunTables(min_mentions)
          => ActiveFrequencies(signals') = ActiveFrequencies(signals)]_vars

====
